---------------------------- MODULE Spec2Model ----------------------------
(***************************************************************************)
(* Model of the multi-framework analysis pipeline of the therapy-session   *)
(* companion: services/analysis_service.py (AnalysisService) and the part  *)
(* of services/multi_assessment_service.py it calls.                       *)
(*                                                                         *)
(* Text is a sequence of one-character strings, so that str.lower(), the   *)
(* `in` substring test, str.split(sep) and str.split() are modelled by     *)
(* what they do to characters.                                             *)
(*                                                                         *)
(* Numbers: a score is an integer number of 1/Scale (Scale = 720), a       *)
(* severity an integer number of 1/SevScale (SevScale = 360).  Every       *)
(* indicator list has 10, 9 or 8 phrases and every base penalty is a       *)
(* multiple of 0.5, so matched/total and base_penalty * severity are       *)
(* exact in these units.  The model is exact rational arithmetic; the      *)
(* rounding of binary floating point is not modelled.                      *)
(***************************************************************************)
EXTENDS Integers, Sequences, FiniteSets, TLC

VARIABLES
  openai_client,        \* self.openai_client is not None
  huggingface_api_key,  \* self.huggingface_api_key is set
  transcript,           \* the argument of analyze_session: [is_str, text]
  pc,                   \* position of the running call
  negative_patterns,    \* ordered mapping (sequence of entries) from _detect_negative_patterns
  domain_scores,        \* raw score set: sequence of <<domain, score>> in insertion order
  detailed_analysis,    \* sequence of <<framework, analysis>> in insertion order
  adjusted_scores,      \* score set returned by _adjust_scores_for_negative_patterns
  overall_insights,     \* return value of _generate_overall_insights
  expert_evaluation,    \* return value of _conduct_expert_therapist_evaluation
  multi_assessment_results, \* return value of conduct_comprehensive_assessment
  prompt,               \* argument of the last provider-chain / local-model call
  provider_result,      \* return value of the last provider-chain / local-model call
  attempts,             \* tiers attempted by the last _analyze_with_providers call, in order
  outbound_calls,       \* hosted calls made since the start of the running call
  hosted_answers,       \* hosted calls that answered since the start of the running call
  result,               \* return value of the running call
  raised,               \* TRUE iff an exception escaped the running call
  now,                  \* datetime.now()
  session_data,         \* the SessionData object the application holds
  sessions_dir,         \* the files sessions/<id>.enc, by id
  saved,                \* ids save_session returned, each with the session passed
  loaded                \* the last SessionData rebuilt from a dict, JSON or a file

\* the state of AnalysisService and of the running call
analysis_vars ==
  << openai_client, huggingface_api_key, transcript, pc, negative_patterns,
     domain_scores, detailed_analysis, adjusted_scores, overall_insights,
     expert_evaluation, multi_assessment_results, prompt, provider_result,
     attempts, outbound_calls, hosted_answers, result, raised >>

\* the state of the session store and of the application's sessions
session_vars == << now, session_data, sessions_dir, saved, loaded >>

vars == << analysis_vars, session_vars >>

----------------------------------------------------------------------------
(* Units *)

Scale == 10 * 9 * 8
SevScale == Scale \div 2

----------------------------------------------------------------------------
(* Text primitives *)

UpperCase == <<"A","B","C","D","E","F","G","H","I","J","K","L","M",
               "N","O","P","Q","R","S","T","U","V","W","X","Y","Z">>
LowerCase == <<"a","b","c","d","e","f","g","h","i","j","k","l","m",
               "n","o","p","q","r","s","t","u","v","w","x","y","z">>

\* str.lower() on one character
LowerChar(c) ==
  IF \E i \in 1..Len(UpperCase) : UpperCase[i] = c
  THEN LowerCase[CHOOSE i \in 1..Len(UpperCase) : UpperCase[i] = c]
  ELSE c

\* str.lower()
Lower(s) == SubSeq([i \in 1..Len(s) |-> LowerChar(s[i])], 1, Len(s))

\* s[i:i+len(p)] == p
MatchAt(s, p, i) == \A j \in 1..Len(p) : s[i + j - 1] = p[j]

\* p in s (p not empty)
Contains(s, p) == \E i \in 1..(Len(s) - Len(p) + 1) : MatchAt(s, p, i)

\* s.find(p) + 1: the first place p occurs in s, 0 if none
Find(s, p) ==
  IF Contains(s, p)
  THEN CHOOSE i \in 1..(Len(s) - Len(p) + 1) :
         MatchAt(s, p, i) /\ \A k \in 1..(i - 1) : ~MatchAt(s, p, k)
  ELSE 0

\* s.split(p)[0]
BeforeFirst(s, p) == IF Find(s, p) = 0 THEN s ELSE SubSeq(s, 1, Find(s, p) - 1)

\* s.split(p, 1)[1], for s containing p
AfterFirst(s, p) == SubSeq(s, Find(s, p) + Len(p), Len(s))

IsSpace(c) == c \in {" ", "\n", "\t"}

\* len(s.split()): the number of maximal runs of non-whitespace characters
WordCount(s) ==
  Cardinality({i \in 1..Len(s) : ~IsSpace(s[i]) /\ (i = 1 \/ IsSpace(s[i - 1]))})

RECURSIVE Concat(_)
\* "".join(parts)
Concat(parts) == IF parts = <<>> THEN <<>> ELSE Head(parts) \o Concat(Tail(parts))

Max(a, b) == IF a >= b THEN a ELSE b
Min(a, b) == IF a <= b THEN a ELSE b

----------------------------------------------------------------------------
(* _detect_negative_patterns *)

\* negative_indicators['therapeutic_alliance']
indicators_therapeutic_alliance ==
  <<
    <<"I"," ","d","o","n","'","t"," ","f","e","e","l"," ","u","n","d","e","r","s","t","o","o","d">>,  \* I don't feel understood
    <<"t","h","e","r","a","p","i","s","t"," ","d","o","e","s","n","'","t"," ","g","e","t"," ","i","t">>,  \* therapist doesn't get it
    <<"w","a","s","t","e"," ","o","f"," ","t","i","m","e">>,  \* waste of time
    <<"n","o","t"," ","h","e","l","p","i","n","g">>,  \* not helping
    <<"d","o","e","s","n","'","t"," ","l","i","s","t","e","n">>,  \* doesn't listen
    <<"j","u","d","g","m","e","n","t","a","l">>,  \* judgmental
    <<"r","u","s","h","e","d">>,  \* rushed
    <<"d","i","s","t","r","a","c","t","e","d">>,  \* distracted
    <<"u","n","c","o","m","f","o","r","t","a","b","l","e">>,  \* uncomfortable
    <<"d","o","n","'","t"," ","t","r","u","s","t">>  \* don't trust
  >>

\* negative_indicators['emotional_deterioration']
indicators_emotional_deterioration ==
  <<
    <<"g","e","t","t","i","n","g"," ","w","o","r","s","e">>,  \* getting worse
    <<"m","o","r","e"," ","d","e","p","r","e","s","s","e","d">>,  \* more depressed
    <<"m","o","r","e"," ","a","n","x","i","o","u","s">>,  \* more anxious
    <<"h","o","p","e","l","e","s","s">>,  \* hopeless
    <<"s","u","i","c","i","d","a","l"," ","t","h","o","u","g","h","t","s">>,  \* suicidal thoughts
    <<"c","a","n","'","t"," ","c","o","p","e">>,  \* can't cope
    <<"o","v","e","r","w","h","e","l","m","e","d">>,  \* overwhelmed
    <<"b","r","e","a","k","i","n","g"," ","d","o","w","n">>,  \* breaking down
    <<"l","o","s","t"," ","c","o","n","t","r","o","l">>,  \* lost control
    <<"s","p","i","r","a","l","i","n","g">>  \* spiraling
  >>

\* negative_indicators['resistance_patterns']
indicators_resistance_patterns ==
  <<
    <<"n","o","t","h","i","n","g"," ","w","o","r","k","s">>,  \* nothing works
    <<"t","r","i","e","d"," ","e","v","e","r","y","t","h","i","n","g">>,  \* tried everything
    <<"w","o","n","'","t"," ","c","h","a","n","g","e">>,  \* won't change
    <<"c","a","n","'","t"," ","d","o"," ","i","t">>,  \* can't do it
    <<"t","o","o"," ","d","i","f","f","i","c","u","l","t">>,  \* too difficult
    <<"p","o","i","n","t","l","e","s","s">>,  \* pointless
    <<"g","i","v","e"," ","u","p">>,  \* give up
    <<"n","o"," ","h","o","p","e">>,  \* no hope
    <<"s","t","u","c","k">>,  \* stuck
    <<"s","a","m","e"," ","p","r","o","b","l","e","m","s">>  \* same problems
  >>

\* negative_indicators['therapeutic_rupture']
indicators_therapeutic_rupture ==
  <<
    <<"a","n","g","r","y"," ","a","t"," ","t","h","e","r","a","p","i","s","t">>,  \* angry at therapist
    <<"d","i","s","a","p","p","o","i","n","t","e","d">>,  \* disappointed
    <<"f","r","u","s","t","r","a","t","e","d"," ","w","i","t","h"," ","t","h","e","r","a","p","y">>,  \* frustrated with therapy
    <<"w","a","n","t"," ","t","o"," ","q","u","i","t">>,  \* want to quit
    <<"n","o","t"," ","c","o","m","i","n","g"," ","b","a","c","k">>,  \* not coming back
    <<"w","a","s","t","i","n","g"," ","m","o","n","e","y">>,  \* wasting money
    <<"n","o","t"," ","w","o","r","t","h"," ","i","t">>,  \* not worth it
    <<"b","e","t","t","e","r"," ","o","f","f"," ","a","l","o","n","e">>,  \* better off alone
    <<"t","h","e","r","a","p","y"," ","f","a","i","l","e","d">>  \* therapy failed
  >>

\* negative_indicators['stagnation_signs']
indicators_stagnation_signs ==
  <<
    <<"n","o"," ","p","r","o","g","r","e","s","s">>,  \* no progress
    <<"s","a","m","e"," ","p","l","a","c","e">>,  \* same place
    <<"n","o","t"," ","m","o","v","i","n","g"," ","f","o","r","w","a","r","d">>,  \* not moving forward
    <<"s","t","u","c","k"," ","i","n"," ","p","a","t","t","e","r","n","s">>,  \* stuck in patterns
    <<"r","e","p","e","a","t","i","n","g"," ","c","y","c","l","e","s">>,  \* repeating cycles
    <<"n","o"," ","i","m","p","r","o","v","e","m","e","n","t">>,  \* no improvement
    <<"m","o","n","t","h","s"," ","w","i","t","h"," ","n","o"," ","c","h","a","n","g","e">>,  \* months with no change
    <<"g","o","i","n","g"," ","i","n"," ","c","i","r","c","l","e","s">>  \* going in circles
  >>

\* negative_indicators, in declaration (= iteration) order
negative_indicators ==
  << [category |-> "therapeutic_alliance",    indicators |-> indicators_therapeutic_alliance],
     [category |-> "emotional_deterioration", indicators |-> indicators_emotional_deterioration],
     [category |-> "resistance_patterns",     indicators |-> indicators_resistance_patterns],
     [category |-> "therapeutic_rupture",     indicators |-> indicators_therapeutic_rupture],
     [category |-> "stagnation_signs",        indicators |-> indicators_stagnation_signs] >>

\* the inner loop: the indicators found in the lower-cased transcript, in declaration order
Matches(indicators, transcript_lower) ==
  SelectSeq(indicators, LAMBDA indicator : Contains(transcript_lower, indicator))

\* len(matches) / len(indicators) with the length of the first category's list for
\* every category
SeverityOverTen(matches, indicators) ==
  (Len(matches) * SevScale) \div Len(indicators_therapeutic_alliance)

\* len(matches) / len(indicators), in 1/SevScale
Severity(matches, indicators) == (Len(matches) * SevScale) \div Len(indicators)

\* one entry of detected_patterns
PatternEntry(category, matches, indicators) ==
  [ category   |-> category,
    severity   |-> Severity(matches, indicators),
    indicators |-> SubSeq(matches, 1, Min(5, Len(matches))) ]

\* detected_patterns: one entry per category with matches, in declaration order
detect_negative_patterns(text) ==
  LET transcript_lower == Lower(text)
      all == [ i \in 1..Len(negative_indicators) |->
                 PatternEntry(negative_indicators[i].category,
                              Matches(negative_indicators[i].indicators, transcript_lower),
                              negative_indicators[i].indicators) ]
  IN  SelectSeq(all, LAMBDA e : e.indicators # <<>>)

----------------------------------------------------------------------------
(* Python values of a score *)

PyNum(v) == [type |-> "num", val |-> v]
\* a score that is a JSON string, such as "8"
PyStr == [type |-> "str", val |-> 0]

----------------------------------------------------------------------------
(* _adjust_scores_for_negative_patterns *)

Domains ==
  << "emotional_safety", "unconscious_patterns", "cognitive_restructuring",
     "communication_changes", "strengths_wellbeing", "narrative_coherence",
     "behavioral_activation" >>

\* pattern_impact, in declaration order; a base penalty is written in halves (-3.0 is -6)
pattern_impact ==
  << [category |-> "therapeutic_alliance",
      impact |-> << <<"emotional_safety", -6>>, <<"communication_changes", -4>>,
                    <<"strengths_wellbeing", -3>> >>],
     [category |-> "emotional_deterioration",
      impact |-> << <<"emotional_safety", -5>>, <<"strengths_wellbeing", -6>>,
                    <<"cognitive_restructuring", -4>>, <<"behavioral_activation", -3>> >>],
     [category |-> "resistance_patterns",
      impact |-> << <<"cognitive_restructuring", -5>>, <<"behavioral_activation", -6>>,
                    <<"narrative_coherence", -4>> >>],
     [category |-> "therapeutic_rupture",
      impact |-> << <<"emotional_safety", -7>>, <<"communication_changes", -5>>,
                    <<"unconscious_patterns", -4>> >>],
     [category |-> "stagnation_signs",
      impact |-> << <<"behavioral_activation", -4>>, <<"cognitive_restructuring", -3>>,
                    <<"narrative_coherence", -5>>, <<"strengths_wellbeing", -2>> >>] >>

\* pattern_impact[pattern_type].items(), empty when pattern_type is not in pattern_impact
ImpactOf(pattern_type) ==
  IF \E i \in 1..Len(pattern_impact) : pattern_impact[i].category = pattern_type
  THEN pattern_impact[CHOOSE i \in 1..Len(pattern_impact) :
                        pattern_impact[i].category = pattern_type].impact
  ELSE <<>>

\* max(1.0, adjusted_scores[domain] + base_penalty * severity), with the floor dropped
PenaltyStepNoFloor(score, base_penalty, severity) ==
  PyNum(score.val + base_penalty * severity)

\* the step with the floor applied to the score before the penalty, not after it
PenaltyStepFloorFirst(score, base_penalty, severity) ==
  PyNum(Max(Scale, score.val) + base_penalty * severity)

\* max(1.0, adjusted_scores[domain] + base_penalty * severity)
PenaltyStep(score, base_penalty, severity) ==
  PyNum(Max(Scale, score.val + base_penalty * severity))

RECURSIVE ApplyImpact(_, _, _)
\* the inner loop over one category's (domain, base_penalty) pairs
ApplyImpact(scores, impact, severity) ==
  IF impact = <<>> THEN scores
  ELSE LET domain == Head(impact)[1]
           base_penalty == Head(impact)[2]
           stepped == IF domain \in DOMAIN scores
                      THEN [scores EXCEPT ![domain] = PenaltyStep(@, base_penalty, severity)]
                      ELSE scores
       IN  ApplyImpact(stepped, Tail(impact), severity)

RECURSIVE ApplyPatterns(_, _)
\* the outer loop over negative_patterns.items()
ApplyPatterns(scores, patterns) ==
  IF patterns = <<>> THEN scores
  ELSE ApplyPatterns(ApplyImpact(scores, ImpactOf(Head(patterns).category),
                                 Head(patterns).severity),
                     Tail(patterns))

\* the adjustment with every score floored at 1.0, penalised or not
AdjustFloorAll(scores, patterns) ==
  LET adjusted == ApplyPatterns(scores, patterns)
  IN  [d \in DOMAIN adjusted |->
         IF adjusted[d].type = "num" THEN PyNum(Max(Scale, adjusted[d].val))
         ELSE adjusted[d]]

\* adjusted_scores = domain_scores.copy(); ...; return adjusted_scores
adjust_scores_for_negative_patterns(scores, patterns) == ApplyPatterns(scores, patterns)

\* str + float: the addition raises TypeError when a penalised score is no number
AdjustRaises(scores, patterns) ==
  \E i \in 1..Len(patterns) :
    \E j \in 1..Len(ImpactOf(patterns[i].category)) :
      LET domain == ImpactOf(patterns[i].category)[j][1]
      IN  domain \in DOMAIN scores /\ scores[domain].type # "num"

\* the call with the penalties applied to domain_scores itself (no .copy())
AdjustInPlace(scores, patterns) ==
  [ returned          |-> ApplyPatterns(scores, patterns),
    domain_scores     |-> ApplyPatterns(scores, patterns),
    negative_patterns |-> patterns ]

\* one call of _adjust_scores_for_negative_patterns: the mapping it returns and the two
\* argument mappings as the call leaves them; the penalties go to the copy made by
\* adjusted_scores = domain_scores.copy()
adjust_scores_call(scores, patterns) ==
  [ returned          |-> adjust_scores_for_negative_patterns(scores, patterns),
    domain_scores     |-> scores,
    negative_patterns |-> patterns ]

----------------------------------------------------------------------------
(* Python values: None, an exception in flight, dicts *)

\* A dict is a function from its keys; {} is the function with no key.
None == [type |-> "NoneType"]

Exception == [type |-> "Exception"]

IsDict(v) == v # None /\ v # Exception

\* bool(v) of None or a dict
Truthy(v) == IsDict(v) /\ DOMAIN v # {}

\* key in d
HasKey(d, key) == IsDict(d) /\ key \in DOMAIN d

----------------------------------------------------------------------------
(* Prompts *)

StrPrompt(text) == [type |-> "str", text |-> text]

\* "Transcript: "
TranscriptMarker ==
  <<"T","r","a","n","s","c","r","i","p","t",":"," ">>

\* "Respond in JSON format"
JsonMarker ==
  <<"R","e","s","p","o","n","d"," ","i","n"," ","J","S","O","N"," ","f","o","r","m","a","t">>

\* the last line before the transcript in each framework prompt
RateLine ==
  <<"R","a","t","e"," ","t","h","e"," ","s","e","s","s","i","o","n"," ","o","n"," ","a"," ","s","c","a","l","e"," ","o","f"," ","1","-","1","0"," ","f","o","r"," ">>

\* the text between the transcript and the JSON instructions
AfterTranscript ==
  <<"\n"," "," "," "," "," "," "," "," ","\n"," "," "," "," "," "," "," "," ">>

\* the field list that follows "Respond in JSON format", shortened
JsonTail ==
  <<" ","w","i","t","h",":","\n","{","\"","s","c","o","r","e","\"",":"," ","<","n","u","m","b","e","r"," ","1","-","1","0",">","}">>

\* the seven analyzers in call order: detailed_analysis key, domain key, rated topic
Frameworks ==
  <<
    [name |-> "rogers", domain |-> "emotional_safety",
     topic |-> <<"e","m","o","t","i","o","n","a","l"," ","s","a","f","e","t","y"," ","a","n","d"," ","r","e","l","a","t","i","o","n","a","l"," ","d","e","p","t","h",".","\n"," "," "," "," "," "," "," "," ","\n"," "," "," "," "," "," "," "," ">>],
    [name |-> "psychodynamic", domain |-> "unconscious_patterns",
     topic |-> <<"u","n","c","o","n","s","c","i","o","u","s"," ","p","a","t","t","e","r","n"," ","e","m","e","r","g","e","n","c","e"," ","a","n","d"," ","i","n","s","i","g","h","t",".","\n"," "," "," "," "," "," "," "," ","\n"," "," "," "," "," "," "," "," ">>],
    [name |-> "cognitive", domain |-> "cognitive_restructuring",
     topic |-> <<"c","o","g","n","i","t","i","v","e"," ","r","e","s","t","r","u","c","t","u","r","i","n","g"," ","e","f","f","e","c","t","i","v","e","n","e","s","s",".","\n"," "," "," "," "," "," "," "," ","\n"," "," "," "," "," "," "," "," ">>],
    [name |-> "family_systems", domain |-> "communication_changes",
     topic |-> <<"c","o","m","m","u","n","i","c","a","t","i","o","n"," ","a","n","d"," ","f","a","m","i","l","y"," ","r","o","l","e"," ","c","h","a","n","g","e","s",".","\n"," "," "," "," "," "," "," "," ","\n"," "," "," "," "," "," "," "," ">>],
    [name |-> "positive_psychology", domain |-> "strengths_wellbeing",
     topic |-> <<"s","t","r","e","n","g","t","h","s"," ","a","n","d"," ","w","e","l","l","-","b","e","i","n","g"," ","f","o","c","u","s",".","\n"," "," "," "," "," "," "," "," ","\n"," "," "," "," "," "," "," "," ">>],
    [name |-> "narrative", domain |-> "narrative_coherence",
     topic |-> <<"n","a","r","r","a","t","i","v","e"," ","c","o","h","e","r","e","n","c","e"," ","a","n","d"," ","i","d","e","n","t","i","t","y"," ","d","e","v","e","l","o","p","m","e","n","t",".","\n"," "," "," "," "," "," "," "," ","\n"," "," "," "," "," "," "," "," ">>],
    [name |-> "behavioral", domain |-> "behavioral_activation",
     topic |-> <<"b","e","h","a","v","i","o","r","a","l"," ","a","c","t","i","v","a","t","i","o","n"," ","a","n","d"," ","r","e","a","l","-","l","i","f","e"," ","a","p","p","l","i","c","a","t","i","o","n",".","\n"," "," "," "," "," "," "," "," ","\n"," "," "," "," "," "," "," "," ">>]
  >>

\* the synthesis prompt up to the analysis summary, shortened
SynthesisHead ==
  <<"p","r","o","v","i","d","e"," ","o","v","e","r","a","l","l"," ","i","n","s","i","g","h","t","s"," ","a","n","d"," ","r","e","c","o","m","m","e","n","d","a","t","i","o","n","s",".","\n","A","n","a","l","y","s","i","s"," ","S","u","m","m","a","r","y",":","\n">>

\* the negative_context heading
NegativeContext ==
  <<"I","M","P","O","R","T","A","N","T"," ","-"," ","N","E","G","A","T","I","V","E"," ","P","A","T","T","E","R","N","S"," ","D","E","T","E","C","T","E","D",":","\n">>

\* the end of the expert prompt's text before the transcript
ExpertHead ==
  <<" ","c","o","n","n","e","c","t","i","o","n",","," ","a","n","d"," ","p","s","y","c","h","o","l","o","g","i","c","a","l"," ","s","a","f","e","t","y",".","\n","\n"," "," "," "," "," "," "," "," ">>

\* the expert prompt after the transcript (the dashes and the accented letter of the
\* source written in ASCII)
ExpertTail ==
  <<"\n","\n"," "," "," "," "," "," "," "," ","F","o","r","m","a","t"," ","y","o","u","r"," ",
    "r","e","s","p","o","n","s","e"," ","a","s"," ","f","o","l","l","o","w","s",":","\n"," ",
    " "," "," "," "," "," "," ","-"," ","*","*","T","h","e","r","a","p","i","s","t"," ","E","m",
    "p","a","t","h","y"," ","&"," ","A","t","t","u","n","e","m","e","n","t","*","*",":"," ","[",
    "1","-","1","0","]"," ","-"," ","[","E","v","i","d","e","n","c","e"," ","f","r","o","m"," ",
    "t","r","a","n","s","c","r","i","p","t","]","\n"," "," "," "," "," "," "," "," ","-"," ",
    "*","*","T","h","e","r","a","p","e","u","t","i","c"," ","T","e","c","h","n","i","q","u","e",
    "s"," ","U","s","e","d","*","*",":"," ","[","L","i","s","t"," ","m","o","d","e","l","s",",",
    " ","w","i","t","h"," ","c","o","m","m","e","n","t","s"," ","o","n"," ","s","k","i","l","l",
    " ","l","e","v","e","l","]","\n"," "," "," "," "," "," "," "," ","-"," ","*","*","S","i",
    "g","n","s"," ","o","f"," ","B","u","r","n","o","u","t"," ","o","r"," ","D","e","t","a","c",
    "h","m","e","n","t","*","*",":"," ","[","Y","e","s","/","N","o","]"," ","-"," ","[","E","x",
    "p","l","a","n","a","t","i","o","n","]","\n"," "," "," "," "," "," "," "," ","-"," ","*",
    "*","C","l","i","e","n","t"," ","P","r","o","g","r","e","s","s"," ","S","i","g","n","a","l",
    "s","*","*",":"," ","[","Y","e","s","/","N","o","]"," ","-"," ","[","E","x","a","m","p","l",
    "e","s","]","\n"," "," "," "," "," "," "," "," ","-"," ","*","*","T","h","e","r","a","p",
    "i","s","t"," ","F","i","t"," ","S","c","o","r","e","*","*",":"," ","[","1","-","1","0","]",
    " ","-"," ","[","J","u","s","t","i","f","i","c","a","t","i","o","n"," ","r","e","f","e","r",
    "e","n","c","i","n","g"," ","k","n","o","w","n"," ","t","h","e","r","a","p","y"," ","p","r",
    "i","n","c","i","p","l","e","s","]","\n","\n"," "," "," "," "," "," "," "," ","*","*","R",
    "e","c","o","m","m","e","n","d","a","t","i","o","n"," ","t","o"," ","C","l","i","e","n","t",
    "*","*",":","\n"," "," "," "," "," "," "," "," ","P","r","o","v","i","d","e"," ","2","-",
    "3"," ","p","e","r","s","o","n","a","l","i","z","e","d"," ","s","u","g","g","e","s","t","i",
    "o","n","s",","," ","s","u","c","h"," ","a","s",":","\n"," "," "," "," "," "," "," "," ",
    "-"," ","C","o","n","t","i","n","u","e"," ","w","i","t","h"," ","t","h","e"," ","t","h","e",
    "r","a","p","i","s","t"," ","a","n","d"," ","e","x","p","l","o","r","e"," ","d","e","e","p",
    "e","r","\n"," "," "," "," "," "," "," "," ","-"," ","R","a","i","s","e"," ","c","o","n",
    "c","e","r","n","s"," ","i","n"," ","n","e","x","t"," ","s","e","s","s","i","o","n","\n",
    " "," "," "," "," "," "," "," ","-"," ","C","o","n","s","i","d","e","r"," ","e","v","a","l",
    "u","a","t","i","n","g"," ","a"," ","n","e","w"," ","t","h","e","r","a","p","i","s","t"," ",
    "w","i","t","h"," ","a"," ","b","e","t","t","e","r"," ","m","o","d","a","l","i","t","y"," ",
    "f","i","t","\n"," "," "," "," "," "," "," "," ">>

\* the chorus prompt up to the transcript
ChorusHead ==
  <<"\n","Y","o","u"," ","a","r","e"," ","a"," ","p","a","n","e","l"," ","o","f"," ","e","i",
    "g","h","t"," ","w","o","r","l","d","-","r","e","n","o","w","n","e","d"," ","p","s","y","c",
    "h","o","t","h","e","r","a","p","y"," ","t","h","e","o","r","i","s","t","s",":","\n","1",
    "."," ","C","a","r","l"," ","R","o","g","e","r","s"," ","(","P","e","r","s","o","n","-","C",
    "e","n","t","e","r","e","d",")","\n","2","."," ","S","i","g","m","u","n","d"," ","F","r",
    "e","u","d"," ","(","P","s","y","c","h","o","a","n","a","l","y","s","i","s",")","\n","3",
    "."," ","M","e","l","a","n","i","e"," ","K","l","e","i","n"," ","(","O","b","j","e","c","t",
    " ","R","e","l","a","t","i","o","n","s",")","\n","4","."," ","A","a","r","o","n"," ","B",
    "e","c","k"," ","(","C","o","g","n","i","t","i","v","e"," ","T","h","e","r","a","p","y",")",
    "\n","5","."," ","A","l","b","e","r","t"," ","E","l","l","i","s"," ","(","R","E","B","T",
    ")","\n","6","."," ","V","i","r","g","i","n","i","a"," ","S","a","t","i","r"," ","(","F",
    "a","m","i","l","y"," ","S","y","s","t","e","m","s",")","\n","7","."," ","M","a","r","t",
    "i","n"," ","S","e","l","i","g","m","a","n"," ","(","P","o","s","i","t","i","v","e"," ","P",
    "s","y","c","h","o","l","o","g","y",")","\n","8","."," ","I","r","v","i","n"," ","Y","a",
    "l","o","m"," ","(","E","x","i","s","t","e","n","t","i","a","l"," ","T","h","e","r","a","p",
    "y",")","\n","\n","Y","o","u"," ","w","i","l","l"," ","a","n","a","l","y","z","e"," ","t",
    "h","e"," ","f","o","l","l","o","w","i","n","g"," ","t","h","e","r","a","p","y"," ","s","e",
    "s","s","i","o","n"," ","t","r","a","n","s","c","r","i","p","t"," ","a","s"," ","a"," ","r",
    "o","u","n","d","t","a","b","l","e"," ","d","i","s","c","u","s","s","i","o","n","."," ","E",
    "a","c","h"," ","t","h","e","o","r","i","s","t"," ","w","i","l","l",":","\n","-"," ","C",
    "o","m","m","e","n","t"," ","i","n"," ","t","u","r","n",","," ","b","u","i","l","d","i","n",
    "g"," ","o","n"," ","p","r","e","v","i","o","u","s"," ","r","e","m","a","r","k","s",".",
    "\n","-"," ","O","f","f","e","r"," ","u","n","i","q","u","e"," ","i","n","s","i","g","h",
    "t","s"," ","f","r","o","m"," ","t","h","e","i","r"," ","f","r","a","m","e","w","o","r","k",
    ".","\n","-"," ","A","v","o","i","d"," ","r","e","p","e","a","t","i","n","g"," ","p","o",
    "i","n","t","s"," ","a","l","r","e","a","d","y"," ","m","a","d","e",".","\n","-"," ","R",
    "e","f","e","r","e","n","c","e"," ","o","r"," ","r","e","s","p","o","n","d"," ","t","o"," ",
    "e","a","r","l","i","e","r"," ","c","o","m","m","e","n","t","s"," ","i","f"," ","r","e","l",
    "e","v","a","n","t",".","\n","\n","*","*","T","r","a","n","s","c","r","i","p","t",":","*",
    "*"," "," ","\n">>

\* the chorus prompt after the transcript
ChorusTail ==
  <<"\n","\n","*","*","F","o","r","m","a","t"," ","y","o","u","r"," ","r","e","s","p","o","n",
    "s","e"," ","a","s",":","*","*","\n","R","o","g","e","r","s",":"," ","[","u","n","i","q",
    "u","e"," ","i","n","s","i","g","h","t","]"," "," ","\n","F","r","e","u","d",":"," ","[",
    "b","u","i","l","d","s"," ","o","n"," ","R","o","g","e","r","s",","," ","a","d","d","s"," ",
    "u","n","i","q","u","e"," ","i","n","s","i","g","h","t","]"," "," ","\n","K","l","e","i",
    "n",":"," ","[","b","u","i","l","d","s"," ","o","n"," ","a","b","o","v","e",","," ","a","d",
    "d","s"," ","u","n","i","q","u","e"," ","i","n","s","i","g","h","t","]"," "," ","\n","B",
    "e","c","k",":"," ","[","b","u","i","l","d","s"," ","o","n"," ","a","b","o","v","e",","," ",
    "a","d","d","s"," ","u","n","i","q","u","e"," ","i","n","s","i","g","h","t","]"," "," ",
    "\n","E","l","l","i","s",":"," ","[","b","u","i","l","d","s"," ","o","n"," ","a","b","o",
    "v","e",","," ","a","d","d","s"," ","u","n","i","q","u","e"," ","i","n","s","i","g","h","t",
    "]"," "," ","\n","S","a","t","i","r",":"," ","[","b","u","i","l","d","s"," ","o","n"," ",
    "a","b","o","v","e",","," ","a","d","d","s"," ","u","n","i","q","u","e"," ","i","n","s","i",
    "g","h","t","]"," "," ","\n","S","e","l","i","g","m","a","n",":"," ","[","b","u","i","l",
    "d","s"," ","o","n"," ","a","b","o","v","e",","," ","a","d","d","s"," ","u","n","i","q","u",
    "e"," ","i","n","s","i","g","h","t","]"," "," ","\n","Y","a","l","o","m",":"," ","[","b",
    "u","i","l","d","s"," ","o","n"," ","a","b","o","v","e",","," ","a","d","d","s"," ","u","n",
    "i","q","u","e"," ","i","n","s","i","g","h","t","]","\n","\n","E","a","c","h"," ","t","h",
    "e","o","r","i","s","t"," ","s","h","o","u","l","d"," ","b","e"," ","c","o","n","c","i","s",
    "e"," ","(","2","-","3"," ","s","e","n","t","e","n","c","e","s",")",","," ","i","n","s","i",
    "g","h","t","f","u","l",","," ","a","n","d"," ","n","o","n","-","r","e","p","e","t","i","t",
    "i","v","e",".","\n"," "," "," "," "," "," "," "," ">>

\* str(prompt) of a prompt passed as a dict
DictRepr ==
  <<"{","'","t","r","a","n","s","c","r","i","p","t","'",":"," ","'","I"," ","f","e","e","l"," ","b","e","t","t","e","r","'","}">>

FrameworkPrompt(framework, text) ==
  StrPrompt(RateLine \o framework.topic \o TranscriptMarker \o text
            \o AfterTranscript \o JsonMarker \o JsonTail)

----------------------------------------------------------------------------
(* _analyze_with_local_model *)

\* therapist_positive keyword list
therapist_positive ==
  <<
    <<"l","i","s","t","e","n">>,  \* listen
    <<"u","n","d","e","r","s","t","a","n","d">>,  \* understand
    <<"e","x","p","l","o","r","e">>,  \* explore
    <<"f","e","e","l">>,  \* feel
    <<"t","e","l","l"," ","m","e"," ","m","o","r","e">>,  \* tell me more
    <<"h","o","w"," ","d","o","e","s"," ","t","h","a","t">>,  \* how does that
    <<"w","h","a","t"," ","d","o"," ","y","o","u"," ","t","h","i","n","k">>,  \* what do you think
    <<"r","e","f","l","e","c","t">>,  \* reflect
    <<"v","a","l","i","d","a","t","e">>,  \* validate
    <<"s","u","p","p","o","r","t">>,  \* support
    <<"a","c","k","n","o","w","l","e","d","g","e">>,  \* acknowledge
    <<"e","m","p","a","t","h","y">>,  \* empathy
    <<"c","o","m","p","a","s","s","i","o","n","a","t","e">>  \* compassionate
  >>

\* therapist_negative keyword list
therapist_negative ==
  <<
    <<"s","h","o","u","l","d">>,  \* should
    <<"m","u","s","t">>,  \* must
    <<"w","r","o","n","g">>,  \* wrong
    <<"b","a","d">>,  \* bad
    <<"f","i","x">>,  \* fix
    <<"s","o","l","v","e">>,  \* solve
    <<"s","i","m","p","l","e">>,  \* simple
    <<"j","u","s","t">>,  \* just
    <<"a","d","v","i","c","e">>,  \* advice
    <<"t","e","l","l"," ","y","o","u"," ","w","h","a","t"," ","t","o"," ","d","o">>,  \* tell you what to do
    <<"o","b","v","i","o","u","s">>,  \* obvious
    <<"c","l","e","a","r","l","y">>  \* clearly
  >>

\* client_positive keyword list
client_positive ==
  <<
    <<"b","e","t","t","e","r">>,  \* better
    <<"p","r","o","g","r","e","s","s">>,  \* progress
    <<"i","n","s","i","g","h","t">>,  \* insight
    <<"u","n","d","e","r","s","t","a","n","d">>,  \* understand
    <<"r","e","a","l","i","z","e">>,  \* realize
    <<"a","w","a","r","e">>,  \* aware
    <<"g","r","o","w","t","h">>,  \* growth
    <<"h","e","l","p","f","u","l">>,  \* helpful
    <<"c","l","e","a","r","e","r">>,  \* clearer
    <<"l","e","a","r","n","e","d">>,  \* learned
    <<"d","i","f","f","e","r","e","n","t"," ","p","e","r","s","p","e","c","t","i","v","e">>  \* different perspective
  >>

\* client_negative keyword list
client_negative ==
  <<
    <<"w","o","r","s","e">>,  \* worse
    <<"s","t","u","c","k">>,  \* stuck
    <<"h","o","p","e","l","e","s","s">>,  \* hopeless
    <<"c","o","n","f","u","s","e","d">>,  \* confused
    <<"f","r","u","s","t","r","a","t","e","d">>,  \* frustrated
    <<"n","o","t"," ","h","e","l","p","i","n","g">>,  \* not helping
    <<"p","o","i","n","t","l","e","s","s">>,  \* pointless
    <<"w","a","s","t","e">>,  \* waste
    <<"g","i","v","i","n","g"," ","u","p">>  \* giving up
  >>

\* the scored text taken to be the whole prompt, framework wording included
LocalTextWholePrompt(p) ==
  Lower(p.text)

\* the text the local model scores: lines 677-688
LocalText(p) ==
  IF p.type = "dict" THEN Lower(p.text)
  ELSE IF Contains(p.text, TranscriptMarker)
       THEN Lower(BeforeFirst(BeforeFirst(AfterFirst(p.text, TranscriptMarker),
                                          TranscriptMarker),
                              JsonMarker))
       ELSE Lower(p.text)

\* sum(1 for phrase in phrases if phrase in transcript_text)
CountIn(phrases, transcript_text) ==
  Cardinality({i \in 1..Len(phrases) : Contains(transcript_text, phrases[i])})

\* base_score with the limits 50, 200 and 500 counted to the tier below
BaseScoreInclusive(transcript_length) ==
  IF transcript_length <= 50 THEN 4
  ELSE IF transcript_length <= 200 THEN 5
  ELSE IF transcript_length <= 500 THEN 6
  ELSE 7

\* base_score, by the number of words
BaseScore(transcript_length) ==
  IF transcript_length < 50 THEN 4
  ELSE IF transcript_length < 200 THEN 5
  ELSE IF transcript_length < 500 THEN 6
  ELSE 7

\* the local score with the positive phrases counted against the session and the
\* negative ones for it
LocalScoreInverted(transcript_text) ==
  LET tenths == 10 * BaseScore(WordCount(transcript_text))
                - 3 * (CountIn(therapist_positive, transcript_text)
                       - CountIn(therapist_negative, transcript_text))
                - 4 * (CountIn(client_positive, transcript_text)
                       - CountIn(client_negative, transcript_text))
  IN  Max(10, Min(100, tenths)) * (Scale \div 10)

\* round(max(1, min(10, base + 0.3 * (tp - tn) + 0.4 * (cp - cn))), 1), in 1/Scale
LocalScore(transcript_text) ==
  LET tenths == 10 * BaseScore(WordCount(transcript_text))
                + 3 * (CountIn(therapist_positive, transcript_text)
                       - CountIn(therapist_negative, transcript_text))
                + 4 * (CountIn(client_positive, transcript_text)
                       - CountIn(client_negative, transcript_text))
  IN  Max(10, Min(100, tenths)) * (Scale \div 10)

LocalNote == "This is a basic local analysis. For detailed insights, please provide API keys for OpenAI or Hugging Face."

\* the result of the try block
LocalAnalysis(score) ==
  [ score                   |-> PyNum(score),
    empathy_evidence        |-> <<"Local analysis - limited detail available">>,
    genuineness_indicators  |-> <<"Local analysis - limited detail available">>,
    positive_regard_moments |-> <<"Local analysis - limited detail available">>,
    client_self_exploration |-> <<"Local analysis - limited detail available">>,
    areas_for_improvement   |-> <<"Consider using AI API for detailed analysis">>,
    note                    |-> LocalNote ]

\* the result of the except block
LocalErrorAnalysis ==
  [ score                   |-> PyNum(5 * Scale),
    empathy_evidence        |-> <<"Local analysis - error occurred">>,
    genuineness_indicators  |-> <<"Local analysis - error occurred">>,
    positive_regard_moments |-> <<"Local analysis - error occurred">>,
    client_self_exploration |-> <<"Local analysis - error occurred">>,
    areas_for_improvement   |-> <<"Please provide API keys for detailed analysis">>,
    note                    |-> "Analysis unavailable due to error" ]

\* the try block raises: `"Transcript: " in prompt` or prompt.lower() on a prompt that is
\* neither a str nor a dict (None, a number, a list)
LocalRaises(p) == p.type \notin {"str", "dict"}

\* the local model with the except block removed
LocalModelUnguarded(p) ==
  IF LocalRaises(p) THEN Exception ELSE LocalAnalysis(LocalScore(LocalText(p)))

analyze_with_local_model(p) ==
  IF LocalRaises(p) THEN LocalErrorAnalysis ELSE LocalAnalysis(LocalScore(LocalText(p)))

----------------------------------------------------------------------------
(* The hosted tiers and _analyze_with_providers *)

\* _create_basic_analysis
create_basic_analysis ==
  [ score                   |-> PyNum(6 * Scale),
    empathy_evidence        |-> <<"Analysis from Hugging Face model">>,
    genuineness_indicators  |-> <<"Analysis from Hugging Face model">>,
    positive_regard_moments |-> <<"Analysis from Hugging Face model">>,
    client_self_exploration |-> <<"Analysis from Hugging Face model">>,
    areas_for_improvement   |-> <<"Consider upgrading to OpenAI for more detailed analysis">>,
    note                    |-> "Analysis performed using Hugging Face free tier" ]

\* scores a hosted LLM may put in its JSON object: 0, 8 and 15
HostedScores == {0, 8 * Scale, 15 * Scale}

\* JSON objects a hosted LLM may answer with
HostedObjects ==
  {<<>>}
  \cup {[score |-> PyNum(v), empathy_evidence |-> <<"hosted evidence">>] : v \in HostedScores}
  \cup { [score |-> PyStr, empathy_evidence |-> <<"hosted evidence">>],
         [empathy_evidence |-> <<"hosted evidence">>],
         [insights |-> <<"hosted insight">>],
         [insights |-> <<"hosted insight">>, recommendations |-> <<"hosted recommendation">>,
          themes |-> <<"hosted theme">>, progress_indicators |-> <<"hosted indicator">>] }

\* what one chat.completions.create call does: it raises, or its content is no JSON
\* (json.loads raises), or its content is a JSON object
OpenAIOutcomes ==
  {[kind |-> "api_error", value |-> None], [kind |-> "bad_content", value |-> None]}
  \cup {[kind |-> "json", value |-> obj] : obj \in HostedObjects}

\* what one requests.post call does: it raises, answers another status than 200, answers
\* 200 with a body that is no JSON (response.json() raises), or answers 200 with JSON
HFOutcomes == {"error", "status_503", "bad_body", "ok"}

\* the outcomes of the hosted calls one run of the chain can make; a tier that is not
\* configured is not called and has the single outcome "api_error" / "error"
OpenAIChoices ==
  IF openai_client THEN OpenAIOutcomes ELSE {[kind |-> "api_error", value |-> None]}
HFChoices == IF huggingface_api_key THEN HFOutcomes ELSE {"error"}

\* _analyze_with_openai with the except block removed
OpenAIUnguarded(o) == IF o.kind = "json" THEN o.value ELSE Exception

analyze_with_openai(o) == IF o.kind = "json" THEN o.value ELSE None

analyze_with_huggingface(h) == IF h = "ok" THEN create_basic_analysis ELSE None

Attempt(tier, value) == [tier |-> tier, ok |-> Truthy(value)]

\* the chain with the Hugging Face tier tried first
ProvidersHFFirst(o, h, third) ==
  LET second == analyze_with_huggingface(h)
      a1 == IF huggingface_api_key THEN <<Attempt("huggingface", second)>> ELSE <<>>
  IN  IF huggingface_api_key /\ Truthy(second) THEN [value |-> second, attempts |-> a1]
      ELSE LET first == analyze_with_openai(o)
               a2 == IF openai_client THEN Append(a1, Attempt("openai", first)) ELSE a1
           IN  IF openai_client /\ Truthy(first) THEN [value |-> first, attempts |-> a2]
               ELSE [value |-> third,
                     attempts |-> Append(a2, [tier |-> "local", ok |-> third # Exception])]

\* _analyze_with_providers: the value returned (or the exception that leaves it) and the
\* tiers attempted, in order.  o and h are what the hosted calls do if they are made;
\* third is what self._analyze_with_local_model(prompt, system_context) does if it is
\* called
analyze_with_providers(o, h, third) ==
  LET first == analyze_with_openai(o)
      a1 == IF openai_client THEN <<Attempt("openai", first)>> ELSE <<>>
  IN  IF openai_client /\ first = Exception THEN [value |-> Exception, attempts |-> a1]
      ELSE IF openai_client /\ Truthy(first) THEN [value |-> first, attempts |-> a1]
      ELSE LET second == analyze_with_huggingface(h)
               a2 == IF huggingface_api_key
                     THEN Append(a1, Attempt("huggingface", second)) ELSE a1
           IN  IF huggingface_api_key /\ second = Exception
               THEN [value |-> Exception, attempts |-> a2]
               ELSE IF huggingface_api_key /\ Truthy(second)
               THEN [value |-> second, attempts |-> a2]
               ELSE [value |-> third,
                     attempts |-> Append(a2, [tier |-> "local", ok |-> third # Exception])]

\* the hosted calls among the attempts
Outbound(tried) == Len(SelectSeq(tried, LAMBDA a : a.tier # "local"))

\* a hosted tier answered
HostedAnswered(tried) == \E i \in 1..Len(tried) : tried[i].tier # "local" /\ tried[i].ok

----------------------------------------------------------------------------
(* The steps of analyze_session after the seven analyzers *)

RECURSIVE SumOver(_, _)
\* sum(f[k] for k in keys)
SumOver(f, keys) ==
  IF keys = {} THEN 0
  ELSE LET k == CHOOSE x \in keys : TRUE IN f[k] + SumOver(f, keys \ {k})

\* _assess_therapy_effectiveness with the two severity comparisons reversed
EffectivenessReversed(scores, patterns) ==
  LET n == Cardinality(DOMAIN scores)
      total == SumOver([d \in DOMAIN scores |-> scores[d].val], DOMAIN scores)
      m == Len(patterns)
      severities == SumOver([i \in 1..m |-> patterns[i].severity], 1..m)
      Below(tenths) == m > 0 /\ 10 * severities < tenths * SevScale * m
  IN  IF total <= 3 * Scale * n \/ Below(4)
      THEN [status |-> "concerning", confidence |-> 8,
            message |-> "Therapy may not be working effectively. Consider discussing concerns with therapist."]
      ELSE IF total <= 5 * Scale * n \/ Below(2)
      THEN [status |-> "mixed", confidence |-> 6,
            message |-> "Therapy showing mixed results. Some areas need attention."]
      ELSE [status |-> "positive", confidence |-> 7,
            message |-> "Therapy appears to be working well overall."]

\* _assess_therapy_effectiveness with avg_score < 3.0 and avg_score < 5.0 for the two
\* inclusive comparisons
EffectivenessExclusive(scores, patterns) ==
  LET n == Cardinality(DOMAIN scores)
      total == SumOver([d \in DOMAIN scores |-> scores[d].val], DOMAIN scores)
      m == Len(patterns)
      severities == SumOver([i \in 1..m |-> patterns[i].severity], 1..m)
      Above(tenths) == m > 0 /\ 10 * severities > tenths * SevScale * m
  IN  IF total < 3 * Scale * n \/ Above(4)
      THEN [status |-> "concerning", confidence |-> 8,
            message |-> "Therapy may not be working effectively. Consider discussing concerns with therapist."]
      ELSE IF total < 5 * Scale * n \/ Above(2)
      THEN [status |-> "mixed", confidence |-> 6,
            message |-> "Therapy showing mixed results. Some areas need attention."]
      ELSE [status |-> "positive", confidence |-> 7,
            message |-> "Therapy appears to be working well overall."]

\* _assess_therapy_effectiveness; avg_score <= 3.0 is total <= 3.0 * len(scores), and
\* negative_severity > 0.4 is 10 * sum(severity) > 4 * len(negative_patterns);
\* confidence is written in tenths
assess_therapy_effectiveness(scores, patterns) ==
  LET n == Cardinality(DOMAIN scores)
      total == SumOver([d \in DOMAIN scores |-> scores[d].val], DOMAIN scores)
      m == Len(patterns)
      severities == SumOver([i \in 1..m |-> patterns[i].severity], 1..m)
      Above(tenths) == m > 0 /\ 10 * severities > tenths * SevScale * m
  IN  IF total <= 3 * Scale * n \/ Above(4)
      THEN [status |-> "concerning", confidence |-> 8,
            message |-> "Therapy may not be working effectively. Consider discussing concerns with therapist."]
      ELSE IF total <= 5 * Scale * n \/ Above(2)
      THEN [status |-> "mixed", confidence |-> 6,
            message |-> "Therapy showing mixed results. Some areas need attention."]
      ELSE [status |-> "positive", confidence |-> 7,
            message |-> "Therapy appears to be working well overall."]

\* sum(scores.values()) raises TypeError when a score is no number
EffectivenessRaises(scores) == \E d \in DOMAIN scores : scores[d].type # "num"

\* negative_patterns[category], for a category that is detected
PatternOf(patterns, category) ==
  patterns[CHOOSE i \in 1..Len(patterns) : patterns[i].category = category]

\* _generate_warning_signs
generate_warning_signs(patterns) ==
  LET Detected(c) == \E i \in 1..Len(patterns) : patterns[i].category = c
      Sign(c, label, level) ==
        IF Detected(c)
        THEN << [category |-> label, severity |-> level,
                 indicators |-> PatternOf(patterns, c).indicators] >>
        ELSE <<>>
      AllianceLevel ==
        IF Detected("therapeutic_alliance")
           /\ 10 * PatternOf(patterns, "therapeutic_alliance").severity > 3 * SevScale
        THEN "high" ELSE "medium"
  IN  Sign("therapeutic_alliance", "Relationship Issues", AllianceLevel)
      \o Sign("emotional_deterioration", "Emotional Decline", "high")
      \o Sign("resistance_patterns", "Treatment Resistance", "medium")
      \o Sign("therapeutic_rupture", "Therapeutic Rupture", "high")
      \o Sign("stagnation_signs", "Lack of Progress", "medium")

\* json.dumps(negative_patterns): the matched phrases of every entry, each in quotes
RECURSIVE DumpPatterns(_)
DumpPatterns(patterns) ==
  IF patterns = <<>> THEN <<>>
  ELSE Concat([i \in 1..Len(Head(patterns).indicators) |->
                 <<"\"">> \o Head(patterns).indicators[i] \o <<"\"", ",">>])
       \o DumpPatterns(Tail(patterns))

\* the prompt of _generate_overall_insights; the analysis summary
\* (json.dumps(detailed_analysis)) is left out of the text
SynthesisPrompt(patterns) ==
  StrPrompt(SynthesisHead
            \o (IF patterns # <<>> THEN NegativeContext \o DumpPatterns(patterns) ELSE <<>>)
            \o AfterTranscript \o JsonMarker \o JsonTail)

\* the prompt of _conduct_expert_therapist_evaluation
ExpertPrompt(text) == StrPrompt(ExpertHead \o TranscriptMarker \o text \o ExpertTail)

\* the prompt of analyze_as_chorus
ChorusPrompt(text) == StrPrompt(ChorusHead \o text \o ChorusTail)

\* the fallback without the two entries added for negative patterns
FallbackGeneric(patterns) ==
  [ insights |-> <<"Session analysis completed with multiple therapeutic perspectives">>,
    recommendations |-> <<"Continue working on identified areas for growth">>,
    themes |-> <<"Therapeutic progress and self-exploration">>,
    progress_indicators |-> <<"Client engagement and insight development">> ]

\* the fallback of _generate_overall_insights
FallbackInsights(patterns) ==
  [ insights |->
      <<"Session analysis completed with multiple therapeutic perspectives">>
      \o (IF patterns # <<>>
          THEN <<"Warning: Concerning patterns detected that may indicate therapy is not working effectively">>
          ELSE <<>>),
    recommendations |->
      <<"Continue working on identified areas for growth">>
      \o (IF patterns # <<>>
          THEN <<"Consider discussing therapy effectiveness and potential changes with your therapist">>
          ELSE <<>>),
    themes |-> <<"Therapeutic progress and self-exploration">>,
    progress_indicators |-> <<"Client engagement and insight development">> ]

\* _generate_overall_insights without its fallback
InsightsNoFallback(chain_value, patterns) == chain_value

\* _generate_overall_insights, given what the provider chain returned
generate_overall_insights(chain_value, patterns) ==
  IF ~Truthy(chain_value) \/ ~HasKey(chain_value, "insights")
  THEN FallbackInsights(patterns)
  ELSE chain_value

\* the keys analyze_session reads from overall_insights
InsightKeys == {"insights", "recommendations", "themes", "progress_indicators"}

\* base_score = evaluation_result.get("score", 6)
ExpertBaseScore(evaluation_result) ==
  IF HasKey(evaluation_result, "score") THEN evaluation_result.score ELSE PyNum(6 * Scale)

\* base_score >= 8 raises TypeError when the score is no number
ExpertRaises(evaluation_result) == ExpertBaseScore(evaluation_result).type # "num"

\* _conduct_expert_therapist_evaluation, given the dict the provider chain returned
expert_therapist_evaluation(evaluation_result) ==
  LET base_score == ExpertBaseScore(evaluation_result).val
  IN  [ therapist_empathy_score |-> base_score,
        therapist_fit_score |-> base_score,
        burnout_signs |-> base_score < 5 * Scale,
        client_progress |-> base_score >= 6 * Scale,
        client_recommendations |->
          IF base_score >= 8 * Scale THEN "Your therapist shows strong therapeutic skills"
          ELSE IF base_score >= 6 * Scale
          THEN "Your therapist demonstrates adequate therapeutic skills"
          ELSE "Consider discussing your therapy goals with your therapist" ]

\* the except block of analyze_session with the exception raised again
ExceptReraise == [result |-> None, raised |-> TRUE]

\* the except block of analyze_session: st.error(...); return None
ExceptHandler == [result |-> None, raised |-> FALSE]

----------------------------------------------------------------------------
(* Inputs *)

\* Pieces of session text; a transcript is a concatenation of pieces
Fragments ==
  << <<"I"," ","d","o","n","'","t"," ","f","e","e","l"," ","u","n","d","e","r","s","t","o","o","d">>,
     <<"N","o","t"," ","H","e","l","p","i","n","g">>,
     <<"h","o","p","e","l","e","s","s">>,
     <<"S","T","U","C","K"," ","i","n"," ","p","a","t","t","e","r","n","s">>,
     <<"c","r","u","s","h","e","d">>,
     <<"w","a","n","t"," ","t","o"," ","q","u","i","t">>,
     <<"n","o"," ","p","r","o","g","r","e","s","s">>,
     <<"g","i","v","e"," ","u","p">>,
     <<" ","a","n","d"," ">>,
     <<"I"," ","u","n","d","e","r","s","t","a","n","d"," ","b","e","t","t","e","r">>,
     <<"T","r","a","n","s","c","r","i","p","t",":"," ">>,
     <<"R","e","s","p","o","n","d"," ","i","n"," ","J","S","O","N"," ","f","o","r","m","a","t">> >>

MaxFragments == 2

RECURSIVE SeqsUpTo(_, _)
\* all sequences over S of length <= n
SeqsUpTo(S, n) ==
  IF n = 0 THEN {<<>>}
  ELSE LET shorter == SeqsUpTo(S, n - 1)
       IN  shorter \cup {Append(s, x) : s \in shorter, x \in S}

\* the texts of at most n pieces taken from the pieces numbered in ixs
Texts(ixs, n) ==
  {Concat([i \in 1..Len(ix) |-> Fragments[ix[i]]]) : ix \in SeqsUpTo(ixs, n)}

AllFragments == 1..Len(Fragments)

StrArg(text) == [is_str |-> TRUE, text |-> text]
\* a transcript argument that is no string (None)
NoneArg == [is_str |-> FALSE, text |-> <<>>]

----------------------------------------------------------------------------
(* Specification of _detect_negative_patterns called on its own *)

\* nothing is stored and the application holds no session
NoSessionYet ==
  /\ now = [type |-> "datetime", second |-> 0, microsecond |-> 0]
  /\ session_data = [type |-> "NoneType"] /\ loaded = [type |-> "NoneType"]
  /\ sessions_dir = <<>> /\ saved = <<>>

\* the state of a service on which no call has run yet
NoCallYet ==
  /\ negative_patterns = <<>> /\ domain_scores = <<>> /\ detailed_analysis = <<>>
  /\ adjusted_scores = <<>> /\ overall_insights = None /\ expert_evaluation = None
  /\ multi_assessment_results = None /\ prompt = None /\ provider_result = None
  /\ attempts = <<>> /\ outbound_calls = 0 /\ hosted_answers = 0
  /\ result = None /\ raised = FALSE
  /\ NoSessionYet

InitDetect ==
  /\ NoCallYet
  /\ openai_client = FALSE /\ huggingface_api_key = FALSE
  /\ transcript \in {StrArg(t) : t \in Texts(AllFragments, MaxFragments)} \cup {NoneArg}
  /\ pc = "detect"

DetectCall ==
  /\ pc = "detect"
  /\ pc' = "done"
  /\ IF transcript.is_str
     THEN /\ negative_patterns' = detect_negative_patterns(transcript.text)
          /\ UNCHANGED raised
     ELSE /\ raised' = TRUE      \* transcript.lower(): AttributeError
          /\ UNCHANGED negative_patterns
  /\ UNCHANGED << openai_client, huggingface_api_key, transcript, domain_scores,
                  detailed_analysis, adjusted_scores, overall_insights, expert_evaluation,
                  multi_assessment_results, prompt, provider_result, attempts,
                  outbound_calls, hosted_answers, result >>
  /\ UNCHANGED session_vars

NextDetect == DetectCall

SpecDetect == InitDetect /\ [][NextDetect]_vars

----------------------------------------------------------------------------
(* Specification of _adjust_scores_for_negative_patterns called on its own *)

MaxPatterns == 2

\* raw scores 0, 1.0, 5.5 and 10
RawValues == {0, Scale, 55 * (Scale \div 10), 10 * Scale}

\* severities 0.1, 4/9 and 1.0
SeverityValues == {SevScale \div 10, 4 * (SevScale \div 9), SevScale}

AllDomains == {Domains[i] : i \in 1..Len(Domains)}

RawScoreSets ==
  {[d \in keys |-> PyNum(v)] :
     keys \in {AllDomains, AllDomains \ {"emotional_safety", "narrative_coherence"}},
     v \in RawValues}
  \cup {[d \in AllDomains |->
           IF d \in {"emotional_safety", "strengths_wellbeing"}
           THEN PyNum(2 * Scale) ELSE PyNum(8 * Scale)],
        [d \in AllDomains |->
           IF d = "unconscious_patterns" THEN PyStr ELSE PyNum(8 * Scale)]}

AdjustCategories ==
  {pattern_impact[i].category : i \in 1..Len(pattern_impact)} \cup {"other_pattern"}

\* the ordered mappings of at most n distinct categories
PatternMappings(n) ==
  {m \in SeqsUpTo({[category |-> c, severity |-> v, indicators |-> <<>>] :
                     c \in AdjustCategories, v \in SeverityValues}, n) :
     \A i, j \in 1..Len(m) : i # j => m[i].category # m[j].category}

InitAdjust ==
  /\ openai_client = FALSE /\ huggingface_api_key = FALSE
  /\ transcript = NoneArg
  /\ domain_scores \in RawScoreSets
  /\ negative_patterns \in PatternMappings(MaxPatterns)
  /\ detailed_analysis = <<>>
  /\ adjusted_scores = <<>> /\ overall_insights = None /\ expert_evaluation = None
  /\ multi_assessment_results = None /\ prompt = None /\ provider_result = None
  /\ attempts = <<>> /\ outbound_calls = 0 /\ hosted_answers = 0
  /\ result = None /\ raised = FALSE
  /\ pc = "adjust_call"
  /\ NoSessionYet

\* the first call
AdjustCall ==
  /\ pc = "adjust_call"
  /\ IF AdjustRaises(domain_scores, negative_patterns)
     THEN /\ raised' = TRUE /\ pc' = "done"
          /\ UNCHANGED << adjusted_scores, domain_scores, negative_patterns >>
     ELSE \E call \in {adjust_scores_call(domain_scores, negative_patterns)} :
            /\ adjusted_scores' = call.returned
            /\ domain_scores' = call.domain_scores
            /\ negative_patterns' = call.negative_patterns
            /\ pc' = "adjust_again"
            /\ UNCHANGED raised
  /\ UNCHANGED << openai_client, huggingface_api_key, transcript, detailed_analysis,
                  overall_insights, expert_evaluation, multi_assessment_results, prompt,
                  provider_result, attempts, outbound_calls, hosted_answers, result >>
  /\ UNCHANGED session_vars

\* a second call with the same two argument objects; its return value goes to result
AdjustAgain ==
  /\ pc = "adjust_again"
  /\ pc' = "done"
  /\ IF AdjustRaises(domain_scores, negative_patterns)
     THEN /\ raised' = TRUE
          /\ UNCHANGED << result, domain_scores, negative_patterns >>
     ELSE \E call \in {adjust_scores_call(domain_scores, negative_patterns)} :
            /\ result' = call.returned
            /\ domain_scores' = call.domain_scores
            /\ negative_patterns' = call.negative_patterns
            /\ UNCHANGED raised
  /\ UNCHANGED << openai_client, huggingface_api_key, transcript, detailed_analysis,
                  adjusted_scores, overall_insights, expert_evaluation,
                  multi_assessment_results, prompt, provider_result, attempts,
                  outbound_calls, hosted_answers >>
  /\ UNCHANGED session_vars

NextAdjust == AdjustCall \/ AdjustAgain

SpecAdjust == InitAdjust /\ [][NextAdjust]_vars

----------------------------------------------------------------------------
(* _assess_therapy_effectiveness on its own *)

\* severities 0.1, 0.2, 0.3, 0.4 and 0.5
EffectivenessSeverities == {k * (SevScale \div 10) : k \in 1..5}

\* score sets averaging exactly 3.0, 3.1, 5.0, 5.1 and 8.0, one of five domains, one
\* averaging 3.0 with unequal scores, and one holding a score that is no number
EffectivenessScoreSets ==
  {[d \in AllDomains |-> PyNum(v)] :
     v \in {30 * (Scale \div 10), 31 * (Scale \div 10), 50 * (Scale \div 10),
            51 * (Scale \div 10), 80 * (Scale \div 10)}}
  \cup {[d \in AllDomains \ {"emotional_safety", "narrative_coherence"} |-> PyNum(5 * Scale)],
        [d \in AllDomains |->
           IF d = "emotional_safety" THEN PyNum(Scale)
           ELSE IF d = "narrative_coherence" THEN PyNum(5 * Scale)
           ELSE PyNum(3 * Scale)],
        [d \in AllDomains |->
           IF d = "unconscious_patterns" THEN PyStr ELSE PyNum(8 * Scale)]}

\* the ordered mappings of at most n distinct categories with these severities
EffectivenessPatterns(n) ==
  {m \in SeqsUpTo({[category |-> c, severity |-> v, indicators |-> <<>>] :
                     c \in {"therapeutic_alliance", "emotional_deterioration",
                            "resistance_patterns"},
                     v \in EffectivenessSeverities}, n) :
     \A i, j \in 1..Len(m) : i # j => m[i].category # m[j].category}

InitEffectiveness ==
  /\ openai_client = FALSE /\ huggingface_api_key = FALSE
  /\ transcript = NoneArg
  /\ adjusted_scores \in EffectivenessScoreSets
  /\ negative_patterns \in EffectivenessPatterns(MaxPatterns)
  /\ domain_scores = <<>> /\ detailed_analysis = <<>>
  /\ overall_insights = None /\ expert_evaluation = None
  /\ multi_assessment_results = None /\ prompt = None /\ provider_result = None
  /\ attempts = <<>> /\ outbound_calls = 0 /\ hosted_answers = 0
  /\ result = None /\ raised = FALSE
  /\ pc = "effectiveness_call"
  /\ NoSessionYet

EffectivenessCall ==
  /\ pc = "effectiveness_call"
  /\ pc' = "done"
  /\ IF EffectivenessRaises(adjusted_scores)
     THEN raised' = TRUE /\ UNCHANGED result
     ELSE /\ result' = assess_therapy_effectiveness(adjusted_scores, negative_patterns)
          /\ UNCHANGED raised
  /\ UNCHANGED << openai_client, huggingface_api_key, transcript, negative_patterns,
                  domain_scores, detailed_analysis, adjusted_scores, overall_insights,
                  expert_evaluation, multi_assessment_results, prompt, provider_result,
                  attempts, outbound_calls, hosted_answers >>
  /\ UNCHANGED session_vars

NextEffectiveness == EffectivenessCall

SpecEffectiveness == InitEffectiveness /\ [][NextEffectiveness]_vars

----------------------------------------------------------------------------
(* Specification of one call of _assess_overall_reliability                  *)

\* self.assessment_methods: reliability_score of each assessment method
assessment_methods ==
  [ unstructured_interview    |-> 6 * Scale,
    structured_interview      |-> 8 * Scale,
    semi_structured_interview |-> (15 * Scale) \div 2,
    behavioral_observation    |-> (13 * Scale) \div 2,
    therapeutic_rating_scales |-> 7 * Scale ]

\* [self.assessment_methods[method].reliability_score for method in methods_used
\*  if method in self.assessment_methods]
RECURSIVE ReliabilityScores(_)
ReliabilityScores(methods_used) ==
  IF methods_used = <<>> THEN <<>>
  ELSE (IF Head(methods_used) \in DOMAIN assessment_methods
        THEN <<assessment_methods[Head(methods_used)]>> ELSE <<>>)
       \o ReliabilityScores(Tail(methods_used))

\* sum(reliability_scores)
RECURSIVE SumOf(_)
SumOf(reliability_scores) ==
  IF reliability_scores = <<>> THEN 0
  ELSE Head(reliability_scores) + SumOf(Tail(reliability_scores))

\* the reliability level with the upper boundary left to 'moderate'
ReliabilityLevelExclusive(overall_reliability) ==
  IF overall_reliability > (15 * Scale) \div 2 THEN "high"
  ELSE IF overall_reliability >= 5 * Scale THEN "moderate"
  ELSE "low"

\* "high" if overall_reliability >= 7.5 else "moderate" if overall_reliability >= 5.0
\* else "low"
ReliabilityLevel(overall_reliability) ==
  IF overall_reliability >= (15 * Scale) \div 2 THEN "high"
  ELSE IF overall_reliability >= 5 * Scale THEN "moderate"
  ELSE "low"

\* _assess_overall_reliability(methods_used); the mean is a sum of halves divided by
\* the number of scores, a whole number of 1/Scale for up to six scores
assess_overall_reliability(methods_used) ==
  LET reliability_scores == ReliabilityScores(methods_used)
  IN  IF reliability_scores = <<>>
      THEN [overall_reliability |-> 5 * Scale, reliability_level |-> "moderate"]
      ELSE LET overall_reliability == SumOf(reliability_scores) \div Len(reliability_scores)
           IN  [ overall_reliability |-> overall_reliability,
                 reliability_level   |-> ReliabilityLevel(overall_reliability),
                 method_reliabilities |->
                   [method \in {methods_used[i] : i \in 1..Len(methods_used)}
                             \cap DOMAIN assessment_methods |-> assessment_methods[method]] ]

MaxMethods == 3

\* method identifiers passed in methods_used: the five known ones and one that
\* self.assessment_methods does not hold
MethodNames == DOMAIN assessment_methods \cup {"family_report"}

InitReliability ==
  /\ openai_client = FALSE /\ huggingface_api_key = FALSE
  /\ transcript = NoneArg
  /\ multi_assessment_results \in {[methods_used |-> m] : m \in SeqsUpTo(MethodNames, MaxMethods)}
  /\ negative_patterns = <<>> /\ adjusted_scores = <<>>
  /\ domain_scores = <<>> /\ detailed_analysis = <<>>
  /\ overall_insights = None /\ expert_evaluation = None
  /\ prompt = None /\ provider_result = None
  /\ attempts = <<>> /\ outbound_calls = 0 /\ hosted_answers = 0
  /\ result = None /\ raised = FALSE
  /\ pc = "reliability_call"
  /\ NoSessionYet

ReliabilityCall ==
  /\ pc = "reliability_call"
  /\ pc' = "done"
  /\ result' = assess_overall_reliability(multi_assessment_results.methods_used)
  /\ UNCHANGED << openai_client, huggingface_api_key, transcript, negative_patterns,
                  domain_scores, detailed_analysis, adjusted_scores, overall_insights,
                  expert_evaluation, multi_assessment_results, prompt, provider_result,
                  attempts, outbound_calls, hosted_answers, raised >>
  /\ UNCHANGED session_vars

NextReliability == ReliabilityCall

SpecReliability == InitReliability /\ [][NextReliability]_vars

----------------------------------------------------------------------------
(* Specification of one call of _calculate_validity_strength followed by     *)
(* _generate_clinical_recommendations                                        *)

\* the keys of convergent_patterns, in insertion order
ConvergentKeys ==
  << "therapeutic_alliance", "client_engagement", "emotional_processing",
     "behavioral_patterns", "treatment_progress" >>

\* _calculate_validity_strength; the float is kept as the fraction num / den
calculate_validity_strength(convergent_patterns, divergent_patterns) ==
  LET convergent_count ==
        SumOf([i \in 1..Len(ConvergentKeys) |-> Len(convergent_patterns[ConvergentKeys[i]])])
      divergent_count == Len(divergent_patterns)
  IN  IF convergent_count + divergent_count = 0
      THEN [num |-> 5, den |-> 1]
      ELSE LET validity_strength ==
                 [num |-> convergent_count * 10, den |-> convergent_count + divergent_count]
           IN  IF 10 * validity_strength.den < validity_strength.num
               THEN [num |-> 10, den |-> 1] ELSE validity_strength

\* the three recommendations that end every list
GenericRecommendations ==
  << "Consider integrating multiple assessment sources for comprehensive evaluation",
     "Regular reassessment recommended to track therapeutic progress",
     "Document assessment limitations and reliability considerations" >>

\* _generate_clinical_recommendations with 8.0 itself counted as moderate
RecommendationsExclusive(convergent_analysis) ==
  LET validity_strength == IF "validity_strength" \in DOMAIN convergent_analysis
                           THEN convergent_analysis.validity_strength
                           ELSE [num |-> 5, den |-> 1]
  IN  (IF validity_strength.num > 8 * validity_strength.den
       THEN << "Assessment findings show strong convergent validity - high confidence in results",
               "Continue with current therapeutic approach based on reliable assessment data" >>
       ELSE IF validity_strength.num >= 6 * validity_strength.den
       THEN << "Assessment findings show moderate convergent validity - reasonable confidence in results",
               "Consider additional assessment methods to strengthen validity" >>
       ELSE << "Assessment findings show limited convergent validity - use caution in interpretation",
               "Recommend comprehensive re-assessment using multiple methods and sources" >>)
      \o GenericRecommendations

\* _generate_clinical_recommendations
generate_clinical_recommendations(convergent_analysis) ==
  LET validity_strength == IF "validity_strength" \in DOMAIN convergent_analysis
                           THEN convergent_analysis.validity_strength
                           ELSE [num |-> 5, den |-> 1]
  IN  (IF validity_strength.num >= 8 * validity_strength.den
       THEN << "Assessment findings show strong convergent validity - high confidence in results",
               "Continue with current therapeutic approach based on reliable assessment data" >>
       ELSE IF validity_strength.num >= 6 * validity_strength.den
       THEN << "Assessment findings show moderate convergent validity - reasonable confidence in results",
               "Consider additional assessment methods to strengthen validity" >>
       ELSE << "Assessment findings show limited convergent validity - use caution in interpretation",
               "Recommend comprehensive re-assessment using multiple methods and sources" >>)
      \o GenericRecommendations

\* entries of one list of convergent_patterns
MaxEntries == 1

\* divergent findings
MaxDivergent == 2

InitValidity ==
  /\ openai_client = FALSE /\ huggingface_api_key = FALSE
  /\ transcript = NoneArg
  /\ multi_assessment_results \in
       { [convergent |-> [k \in {ConvergentKeys[i] : i \in 1..Len(ConvergentKeys)} |->
                            [j \in 1..lengths[k] |-> "finding"]],
          divergent  |-> [j \in 1..d |-> "divergence"]] :
           lengths \in [{ConvergentKeys[i] : i \in 1..Len(ConvergentKeys)} -> 0..MaxEntries],
           d \in 0..MaxDivergent }
  /\ negative_patterns = <<>> /\ adjusted_scores = <<>>
  /\ domain_scores = <<>> /\ detailed_analysis = <<>>
  /\ overall_insights = None /\ expert_evaluation = None
  /\ prompt = None /\ provider_result = None
  /\ attempts = <<>> /\ outbound_calls = 0 /\ hosted_answers = 0
  /\ result = None /\ raised = FALSE
  /\ NoSessionYet
  /\ pc = "validity_call"

\* lines 322-328 and 217-224: the strength is calculated and the recommendations are
\* generated from the analysis that holds it
ValidityCall ==
  /\ pc = "validity_call"
  /\ pc' = "done"
  /\ LET convergent_analysis ==
           [ convergent |-> multi_assessment_results.convergent,
             divergent  |-> multi_assessment_results.divergent,
             validity_strength |->
               calculate_validity_strength(multi_assessment_results.convergent,
                                           multi_assessment_results.divergent) ]
     IN  result' = [ validity_strength |-> convergent_analysis.validity_strength,
                     clinical_recommendations |->
                       generate_clinical_recommendations(convergent_analysis) ]
  /\ UNCHANGED << openai_client, huggingface_api_key, transcript, negative_patterns,
                  domain_scores, detailed_analysis, adjusted_scores, overall_insights,
                  expert_evaluation, multi_assessment_results, prompt, provider_result,
                  attempts, outbound_calls, hosted_answers, raised >>
  /\ UNCHANGED session_vars

NextValidity == ValidityCall

SpecValidity == InitValidity /\ [][NextValidity]_vars

----------------------------------------------------------------------------
(* conduct_comprehensive_assessment and the four assessment methods.  Every  *)
(* pattern of the service is an alternation of literal phrases, kept as the  *)
(* sequence of its alternatives.                                             *)

\* bool(re.search(pattern, lowered))
Search(pattern, lowered) == \E k \in 1..Len(pattern) : Contains(lowered, pattern[k])

\* the places of lowered where an alternative of pattern matches
MatchStarts(pattern, lowered) ==
  {i \in 1..Len(lowered) :
     \E k \in 1..Len(pattern) :
       i + Len(pattern[k]) - 1 <= Len(lowered) /\ MatchAt(lowered, pattern[k], i)}

\* the length of the match re takes at place i: that of the first alternative matching
MatchLen(pattern, lowered, i) ==
  Len(pattern[CHOOSE k \in 1..Len(pattern) :
                /\ i + Len(pattern[k]) - 1 <= Len(lowered) /\ MatchAt(lowered, pattern[k], i)
                /\ \A j \in 1..(k - 1) :
                     ~(i + Len(pattern[j]) - 1 <= Len(lowered)
                       /\ MatchAt(lowered, pattern[j], i))])

RECURSIVE CountFrom(_, _, _, _)
\* the matches re.findall takes at or after place i, left to right without overlap
CountFrom(pattern, lowered, starts, i) ==
  IF \A s \in starts : s < i THEN 0
  ELSE LET s == CHOOSE s \in starts : s >= i /\ \A r \in starts : r >= i => s <= r
       IN  1 + CountFrom(pattern, lowered, starts, s + MatchLen(pattern, lowered, s))

\* len(re.findall(pattern, lowered))
FindAllCount(pattern, lowered) ==
  CountFrom(pattern, lowered, MatchStarts(pattern, lowered), 1)

\* {key: len(re.findall(pattern, lowered))} for the entries of a table
Counts(indicators, lowered) ==
  [key \in {indicators[i].key : i \in 1..Len(indicators)} |->
     FindAllCount(indicators[CHOOSE i \in 1..Len(indicators) : indicators[i].key = key].pattern,
                  lowered)]

\* {key: bool(re.search(pattern, lowered))} for the entries of a table
Hits(elements, lowered) ==
  [key \in {elements[i].key : i \in 1..Len(elements)} |->
     Search(elements[CHOOSE i \in 1..Len(elements) : elements[i].key = key].pattern, lowered)]

\* sum(indicators.values()) of a dict of counts
Total(indicators) == SumOver(indicators, DOMAIN indicators)

\* sum(elements.values()) / len(elements) * 10 of a dict of booleans, in 1/Scale
TenPointScore(elements) ==
  (Cardinality({key \in DOMAIN elements : elements[key]}) * 10 * Scale)
    \div Cardinality(DOMAIN elements)

\* high if score >= upper else middle if score >= lower else low
Level(score, upper, lower, high, middle, low) ==
  IF score >= upper * Scale THEN high ELSE IF score >= lower * Scale THEN middle ELSE low

\* the patterns of rapport_indicators
rapport_indicators ==
  <<
    [key |-> "empathic_responses", pattern |-> <<
       <<"u","n","d","e","r","s","t","a","n","d">>,  \* understand
       <<"f","e","e","l">>,  \* feel
       <<"h","e","a","r"," ","y","o","u">>,  \* hear you
       <<"t","h","a","t"," ","s","o","u","n","d","s">>,  \* that sounds
       <<"i"," ","c","a","n"," ","s","e","e">>  \* i can see
     >>],
    [key |-> "validation_statements", pattern |-> <<
       <<"v","a","l","i","d">>,  \* valid
       <<"u","n","d","e","r","s","t","a","n","d","a","b","l","e">>,  \* understandable
       <<"m","a","k","e","s"," ","s","e","n","s","e">>,  \* makes sense
       <<"a","p","p","r","e","c","i","a","t","e">>  \* appreciate
     >>],
    [key |-> "collaborative_language", pattern |-> <<
       <<"w","e">>,  \* we
       <<"t","o","g","e","t","h","e","r">>,  \* together
       <<"w","i","t","h"," ","y","o","u">>,  \* with you
       <<"o","u","r"," ","w","o","r","k">>  \* our work
     >>],
    [key |-> "warmth_indicators", pattern |-> <<
       <<"c","a","r","e">>,  \* care
       <<"s","u","p","p","o","r","t">>,  \* support
       <<"h","e","r","e"," ","f","o","r"," ","y","o","u">>,  \* here for you
       <<"s","a","f","e">>  \* safe
     >>]
  >>

\* _assess_rapport_quality
assess_rapport_quality(lowered) ==
  LET indicators == Counts(rapport_indicators, lowered)
      rapport_score == Min(10 * Scale, Total(indicators) * (Scale \div 2))
  IN  [ rapport_score |-> rapport_score,
        indicators    |-> indicators,
        quality_level |-> Level(rapport_score, 7, 4, "high", "moderate", "low") ]

\* the patterns of openness_indicators
openness_indicators ==
  <<
    [key |-> "self_disclosure", pattern |-> <<
       <<"i"," ","f","e","e","l">>,  \* i feel
       <<"i"," ","t","h","i","n","k">>,  \* i think
       <<"i"," ","b","e","l","i","e","v","e">>,  \* i believe
       <<"i"," ","e","x","p","e","r","i","e","n","c","e">>  \* i experience
     >>],
    [key |-> "vulnerability_sharing", pattern |-> <<
       <<"d","i","f","f","i","c","u","l","t">>,  \* difficult
       <<"h","a","r","d">>,  \* hard
       <<"s","t","r","u","g","g","l","e">>,  \* struggle
       <<"v","u","l","n","e","r","a","b","l","e">>  \* vulnerable
     >>],
    [key |-> "insight_expressions", pattern |-> <<
       <<"r","e","a","l","i","z","e">>,  \* realize
       <<"u","n","d","e","r","s","t","a","n","d">>,  \* understand
       <<"s","e","e"," ","n","o","w">>,  \* see now
       <<"l","e","a","r","n","e","d">>  \* learned
     >>],
    [key |-> "emotional_expression", pattern |-> <<
       <<"s","a","d">>,  \* sad
       <<"h","a","p","p","y">>,  \* happy
       <<"a","n","g","r","y">>,  \* angry
       <<"a","n","x","i","o","u","s">>,  \* anxious
       <<"e","x","c","i","t","e","d">>,  \* excited
       <<"f","r","u","s","t","r","a","t","e","d">>  \* frustrated
     >>]
  >>

\* _assess_client_openness
assess_client_openness(lowered) ==
  LET indicators == Counts(openness_indicators, lowered)
      openness_score == Min(10 * Scale, Total(indicators) * ((2 * Scale) \div 5))
  IN  [ openness_score   |-> openness_score,
        indicators       |-> indicators,
        engagement_level |-> Level(openness_score, 7, 4, "high", "moderate", "low") ]

\* _analyze_unstructured_interview; of its keys exploration_depth, therapeutic_themes
\* and counselor_techniques are left out
analyze_unstructured_interview(text) ==
  [ method            |-> "unstructured_interview",
    rapport_quality   |-> assess_rapport_quality(Lower(text)),
    client_openness   |-> assess_client_openness(Lower(text)),
    reliability_score |-> assessment_methods["unstructured_interview"] ]

\* the patterns of problem_elements
problem_elements ==
  <<
    [key |-> "problem_description", pattern |-> <<
       <<"p","r","o","b","l","e","m">>,  \* problem
       <<"i","s","s","u","e">>,  \* issue
       <<"c","o","n","c","e","r","n">>,  \* concern
       <<"d","i","f","f","i","c","u","l","t">>  \* difficult
     >>],
    [key |-> "symptom_details", pattern |-> <<
       <<"s","y","m","p","t","o","m">>,  \* symptom
       <<"e","x","p","e","r","i","e","n","c","e">>,  \* experience
       <<"f","e","e","l">>,  \* feel
       <<"h","a","p","p","e","n">>  \* happen
     >>],
    [key |-> "onset_timing", pattern |-> <<
       <<"w","h","e","n">>,  \* when
       <<"s","t","a","r","t","e","d">>,  \* started
       <<"b","e","g","a","n">>,  \* began
       <<"f","i","r","s","t"," ","t","i","m","e">>  \* first time
     >>],
    [key |-> "severity_impact", pattern |-> <<
       <<"s","e","v","e","r","e">>,  \* severe
       <<"m","i","l","d">>,  \* mild
       <<"i","m","p","a","c","t">>,  \* impact
       <<"a","f","f","e","c","t">>,  \* affect
       <<"i","n","t","e","r","f","e","r","e">>  \* interfere
     >>],
    [key |-> "frequency_duration", pattern |-> <<
       <<"o","f","t","e","n">>,  \* often
       <<"f","r","e","q","u","e","n","c","y">>,  \* frequency
       <<"h","o","w"," ","l","o","n","g">>,  \* how long
       <<"d","u","r","a","t","i","o","n">>  \* duration
     >>]
  >>

\* the patterns of symptom_domains
symptom_domains ==
  <<
    [key |-> "cognitive_symptoms", pattern |-> <<
       <<"t","h","i","n","k">>,  \* think
       <<"t","h","o","u","g","h","t">>,  \* thought
       <<"m","e","m","o","r","y">>,  \* memory
       <<"c","o","n","c","e","n","t","r","a","t","e">>  \* concentrate
     >>],
    [key |-> "emotional_symptoms", pattern |-> <<
       <<"f","e","e","l">>,  \* feel
       <<"e","m","o","t","i","o","n">>,  \* emotion
       <<"m","o","o","d">>,  \* mood
       <<"a","f","f","e","c","t">>  \* affect
     >>],
    [key |-> "behavioral_symptoms", pattern |-> <<
       <<"d","o">>,  \* do
       <<"b","e","h","a","v","e">>,  \* behave
       <<"a","c","t","i","o","n">>,  \* action
       <<"a","c","t","i","v","i","t","y">>  \* activity
     >>],
    [key |-> "somatic_symptoms", pattern |-> <<
       <<"b","o","d","y">>,  \* body
       <<"p","h","y","s","i","c","a","l">>,  \* physical
       <<"s","l","e","e","p">>,  \* sleep
       <<"e","a","t">>,  \* eat
       <<"e","n","e","r","g","y">>  \* energy
     >>],
    [key |-> "interpersonal_symptoms", pattern |-> <<
       <<"r","e","l","a","t","i","o","n","s","h","i","p">>,  \* relationship
       <<"s","o","c","i","a","l">>,  \* social
       <<"i","n","t","e","r","a","c","t">>,  \* interact
       <<"p","e","o","p","l","e">>  \* people
     >>]
  >>

\* the patterns of functional_areas
functional_areas ==
  <<
    [key |-> "work_functioning", pattern |-> <<
       <<"w","o","r","k">>,  \* work
       <<"j","o","b">>,  \* job
       <<"c","a","r","e","e","r">>,  \* career
       <<"e","m","p","l","o","y","m","e","n","t">>  \* employment
     >>],
    [key |-> "relationship_functioning", pattern |-> <<
       <<"r","e","l","a","t","i","o","n","s","h","i","p">>,  \* relationship
       <<"f","a","m","i","l","y">>,  \* family
       <<"f","r","i","e","n","d">>,  \* friend
       <<"s","o","c","i","a","l">>  \* social
     >>],
    [key |-> "self_care", pattern |-> <<
       <<"s","e","l","f"," ","c","a","r","e">>,  \* self care
       <<"h","y","g","i","e","n","e">>,  \* hygiene
       <<"h","e","a","l","t","h">>,  \* health
       <<"e","a","t","i","n","g">>  \* eating
     >>],
    [key |-> "daily_activities", pattern |-> <<
       <<"d","a","i","l","y">>,  \* daily
       <<"r","o","u","t","i","n","e">>,  \* routine
       <<"a","c","t","i","v","i","t","i","e","s">>,  \* activities
       <<"f","u","n","c","t","i","o","n">>  \* function
     >>],
    [key |-> "recreational_activities", pattern |-> <<
       <<"h","o","b","b","i","e","s">>,  \* hobbies
       <<"f","u","n">>,  \* fun
       <<"r","e","c","r","e","a","t","i","o","n">>,  \* recreation
       <<"e","n","j","o","y">>  \* enjoy
     >>]
  >>

\* the patterns of risk_indicators
risk_indicators ==
  <<
    [key |-> "self_harm_risk", pattern |-> <<
       <<"h","u","r","t"," ","m","y","s","e","l","f">>,  \* hurt myself
       <<"s","e","l","f"," ","h","a","r","m">>,  \* self harm
       <<"s","u","i","c","i","d","e">>,  \* suicide
       <<"d","i","e">>  \* die
     >>],
    [key |-> "substance_use", pattern |-> <<
       <<"a","l","c","o","h","o","l">>,  \* alcohol
       <<"d","r","u","g">>,  \* drug
       <<"s","u","b","s","t","a","n","c","e">>,  \* substance
       <<"d","r","i","n","k","i","n","g">>  \* drinking
     >>],
    [key |-> "violence_risk", pattern |-> <<
       <<"v","i","o","l","e","n","t">>,  \* violent
       <<"h","u","r","t"," ","o","t","h","e","r","s">>,  \* hurt others
       <<"a","n","g","e","r">>,  \* anger
       <<"r","a","g","e">>  \* rage
     >>],
    [key |-> "impulsivity", pattern |-> <<
       <<"i","m","p","u","l","s","i","v","e">>,  \* impulsive
       <<"r","e","c","k","l","e","s","s">>,  \* reckless
       <<"d","a","n","g","e","r","o","u","s">>,  \* dangerous
       <<"r","i","s","k","y">>  \* risky
     >>],
    [key |-> "social_support", pattern |-> <<
       <<"s","u","p","p","o","r","t">>,  \* support
       <<"f","a","m","i","l","y">>,  \* family
       <<"f","r","i","e","n","d","s">>,  \* friends
       <<"h","e","l","p">>  \* help
     >>]
  >>

\* the patterns of strength_indicators
strength_indicators ==
  <<
    [key |-> "coping_skills", pattern |-> <<
       <<"c","o","p","e">>,  \* cope
       <<"m","a","n","a","g","e">>,  \* manage
       <<"h","a","n","d","l","e">>,  \* handle
       <<"s","t","r","a","t","e","g","y">>  \* strategy
     >>],
    [key |-> "resilience", pattern |-> <<
       <<"r","e","s","i","l","i","e","n","t">>,  \* resilient
       <<"s","t","r","o","n","g">>,  \* strong
       <<"o","v","e","r","c","o","m","e">>,  \* overcome
       <<"s","u","r","v","i","v","e">>  \* survive
     >>],
    [key |-> "insight", pattern |-> <<
       <<"u","n","d","e","r","s","t","a","n","d">>,  \* understand
       <<"r","e","a","l","i","z","e">>,  \* realize
       <<"a","w","a","r","e">>,  \* aware
       <<"i","n","s","i","g","h","t">>  \* insight
     >>],
    [key |-> "motivation", pattern |-> <<
       <<"m","o","t","i","v","a","t","e","d">>,  \* motivated
       <<"w","a","n","t"," ","t","o">>,  \* want to
       <<"g","o","a","l">>,  \* goal
       <<"c","h","a","n","g","e">>  \* change
     >>],
    [key |-> "social_support", pattern |-> <<
       <<"s","u","p","p","o","r","t">>,  \* support
       <<"f","a","m","i","l","y">>,  \* family
       <<"f","r","i","e","n","d","s">>,  \* friends
       <<"h","e","l","p">>  \* help
     >>]
  >>

\* the patterns of goal_elements
goal_elements ==
  <<
    [key |-> "goals_discussed", pattern |-> <<
       <<"g","o","a","l">>,  \* goal
       <<"o","b","j","e","c","t","i","v","e">>,  \* objective
       <<"w","a","n","t"," ","t","o">>,  \* want to
       <<"h","o","p","e"," ","t","o">>  \* hope to
     >>],
    [key |-> "specific_targets", pattern |-> <<
       <<"s","p","e","c","i","f","i","c">>,  \* specific
       <<"p","a","r","t","i","c","u","l","a","r">>,  \* particular
       <<"f","o","c","u","s"," ","o","n">>  \* focus on
     >>],
    [key |-> "measurable_outcomes", pattern |-> <<
       <<"m","e","a","s","u","r","e">>,  \* measure
       <<"t","r","a","c","k">>,  \* track
       <<"p","r","o","g","r","e","s","s">>,  \* progress
       <<"i","m","p","r","o","v","e">>  \* improve
     >>],
    [key |-> "realistic_expectations", pattern |-> <<
       <<"r","e","a","l","i","s","t","i","c">>,  \* realistic
       <<"a","c","h","i","e","v","a","b","l","e">>,  \* achievable
       <<"p","o","s","s","i","b","l","e">>  \* possible
     >>],
    [key |-> "client_motivation", pattern |-> <<
       <<"m","o","t","i","v","a","t","e","d">>,  \* motivated
       <<"c","o","m","m","i","t","t","e","d">>,  \* committed
       <<"r","e","a","d","y">>  \* ready
     >>]
  >>

\* _assess_problem_presentation
assess_problem_presentation(lowered) ==
  LET elements == Hits(problem_elements, lowered) IN
  [ coverage_score   |-> TenPointScore(elements),
    elements_covered |-> elements,
    completeness     |-> Level(TenPointScore(elements), 8, 6,
                               "comprehensive", "adequate", "limited") ]

\* _assess_symptom_coverage
assess_symptom_coverage(lowered) ==
  LET domains == Hits(symptom_domains, lowered) IN
  [ coverage_score        |-> TenPointScore(domains),
    domains_covered       |-> domains,
    systematic_assessment |-> Level(TenPointScore(domains), 8, 6,
                                    "thorough", "adequate", "limited") ]

\* _assess_functional_impact
assess_functional_impact(lowered) ==
  LET areas == Hits(functional_areas, lowered) IN
  [ impact_score          |-> TenPointScore(areas),
    areas_assessed        |-> areas,
    functional_assessment |-> Level(TenPointScore(areas), 8, 6,
                                    "comprehensive", "adequate", "limited") ]

\* _assess_risk_factors
assess_risk_factors(lowered) ==
  LET indicators == Hits(risk_indicators, lowered) IN
  [ risk_score        |-> TenPointScore(indicators),
    risk_indicators   |-> indicators,
    safety_assessment |-> Level(TenPointScore(indicators), 8, 6,
                                "comprehensive", "adequate", "limited") ]

\* _assess_client_strengths
assess_client_strengths(lowered) ==
  LET indicators == Hits(strength_indicators, lowered) IN
  [ strength_score       |-> TenPointScore(indicators),
    strengths_identified |-> indicators,
    strength_assessment  |-> Level(TenPointScore(indicators), 8, 6,
                                   "comprehensive", "adequate", "limited") ]

\* _assess_goal_identification
assess_goal_identification(lowered) ==
  LET elements == Hits(goal_elements, lowered) IN
  [ goal_score    |-> TenPointScore(elements),
    goal_elements |-> elements,
    goal_setting  |-> Level(TenPointScore(elements), 8, 6,
                            "comprehensive", "adequate", "limited") ]

\* _calculate_completeness_score: the mean coverage_score of the areas that have one
calculate_completeness_score(coverage_areas) ==
  LET counted == {area \in DOMAIN coverage_areas :
                    "coverage_score" \in DOMAIN coverage_areas[area]}
      total_score == SumOver([area \in counted |-> coverage_areas[area].coverage_score],
                             counted)
  IN  IF counted # {} THEN total_score \div Cardinality(counted) ELSE 0

\* coverage_areas of _analyze_structured_elements
CoverageAreas(lowered) ==
  [ presenting_problem   |-> assess_problem_presentation(lowered),
    symptom_assessment   |-> assess_symptom_coverage(lowered),
    functional_impact    |-> assess_functional_impact(lowered),
    risk_assessment      |-> assess_risk_factors(lowered),
    strengths_assessment |-> assess_client_strengths(lowered),
    treatment_goals      |-> assess_goal_identification(lowered) ]

\* _analyze_structured_elements
analyze_structured_elements(text) ==
  [ method              |-> "structured_interview",
    systematic_coverage |-> CoverageAreas(Lower(text)),
    completeness_score  |-> calculate_completeness_score(CoverageAreas(Lower(text))),
    reliability_score   |-> assessment_methods["structured_interview"] ]

\* the patterns of engagement_indicators; response_length is no pattern
engagement_indicators ==
  <<
    [key |-> "emotional_expression", pattern |-> <<
       <<"f","e","e","l">>,  \* feel
       <<"e","m","o","t","i","o","n">>,  \* emotion
       <<"e","x","c","i","t","e","d">>,  \* excited
       <<"s","a","d">>,  \* sad
       <<"h","a","p","p","y">>  \* happy
     >>],
    [key |-> "question_asking", pattern |-> <<
       <<"w","h","a","t">>,  \* what
       <<"h","o","w">>,  \* how
       <<"w","h","y">>,  \* why
       <<"c","a","n"," ","y","o","u">>,  \* can you
       <<"d","o"," ","y","o","u"," ","t","h","i","n","k">>  \* do you think
     >>],
    [key |-> "active_participation", pattern |-> <<
       <<"y","e","s">>,  \* yes
       <<"r","i","g","h","t">>,  \* right
       <<"e","x","a","c","t","l","y">>,  \* exactly
       <<"t","h","a","t","'","s"," ","t","r","u","e">>  \* that's true
     >>],
    [key |-> "personal_sharing", pattern |-> <<
       <<"i">>,  \* i
       <<"m","e">>,  \* me
       <<"m","y">>,  \* my
       <<"p","e","r","s","o","n","a","l","l","y">>  \* personally
     >>]
  >>

\* _assess_engagement_level
assess_engagement_level(text) ==
  LET indicators == [response_length |-> WordCount(text) > 100]
                    @@ Hits(engagement_indicators, Lower(text))
  IN  [ engagement_score |-> TenPointScore(indicators),
        indicators       |-> indicators,
        engagement_level |-> Level(TenPointScore(indicators), 7, 4,
                                   "high", "moderate", "low") ]

\* _analyze_behavioral_indicators; of behavioral_patterns only engagement_level is
\* kept, and consistency_indicators is left out
analyze_behavioral_indicators(text) ==
  [ method              |-> "behavioral_observation",
    behavioral_patterns |-> [engagement_level |-> assess_engagement_level(text)],
    reliability_score   |-> assessment_methods["behavioral_observation"] ]

\* _apply_therapeutic_rating_scales; of scale_scores only client_engagement_scale is
\* kept, and overall_rating is left out
apply_therapeutic_rating_scales(text) ==
  [ method            |-> "therapeutic_rating_scales",
    scale_scores      |->
      [client_engagement_scale |-> assess_engagement_level(text).engagement_score],
    reliability_score |-> assessment_methods["therapeutic_rating_scales"] ]

\* [finding[key] for finding in all_findings if key in finding]
RECURSIVE Collected(_, _)
Collected(all_findings, key) ==
  IF all_findings = <<>> THEN <<>>
  ELSE (IF key \in DOMAIN Head(all_findings) THEN <<Head(all_findings)[key]>> ELSE <<>>)
       \o Collected(Tail(all_findings), key)

\* _identify_convergent_patterns reading engagement_level inside behavioral_patterns
ConvergentPatternsNested(all_findings) ==
  [ therapeutic_alliance |-> Collected(all_findings, "rapport_quality"),
    client_engagement    |-> Collected(Collected(all_findings, "behavioral_patterns"),
                                       "engagement_level"),
    emotional_processing |-> <<>>,
    behavioral_patterns  |-> <<>>,
    treatment_progress   |-> <<>> ]

\* _identify_convergent_patterns
identify_convergent_patterns(all_findings) ==
  [ therapeutic_alliance |-> Collected(all_findings, "rapport_quality"),
    client_engagement    |-> Collected(all_findings, "engagement_level"),
    emotional_processing |-> <<>>,
    behavioral_patterns  |-> <<>>,
    treatment_progress   |-> <<>> ]

\* _identify_divergent_patterns
identify_divergent_patterns(all_findings) == <<>>

\* _assess_convergent_validity(*method_results); every method result is a dict
assess_convergent_validity(method_results) ==
  [ convergent |-> identify_convergent_patterns(method_results),
    divergent  |-> identify_divergent_patterns(method_results),
    validity_strength |->
      calculate_validity_strength(identify_convergent_patterns(method_results),
                                  identify_divergent_patterns(method_results)) ]

\* the four method results in the order they are passed to _assess_convergent_validity
MethodResults(text) ==
  << analyze_unstructured_interview(text), analyze_structured_elements(text),
     analyze_behavioral_indicators(text), apply_therapeutic_rating_scales(text) >>

\* conduct_comprehensive_assessment(transcript) without additional sources; of the
\* result assessment_date, validity_indicators and assessment_limitations are left out
conduct_comprehensive_assessment(text) ==
  LET methods_used == << "unstructured_interview", "structured_interview",
                         "behavioral_observation", "therapeutic_rating_scales" >>
  IN  [ methods_used             |-> methods_used,
        sources_consulted        |-> << "session_transcript" >>,
        convergent_findings      |-> assess_convergent_validity(MethodResults(text)).convergent,
        divergent_findings       |-> assess_convergent_validity(MethodResults(text)).divergent,
        reliability_assessment   |-> assess_overall_reliability(methods_used),
        clinical_recommendations |->
          generate_clinical_recommendations(assess_convergent_validity(MethodResults(text))) ]

----------------------------------------------------------------------------
(* models/session_data.py and services/session_manager.py: Python values,   *)
(* JSON, SessionData and the session store                                   *)

\* Python values: str, list and dict (items in insertion order, str keys); floats are
\* PyNum and None is None
PyText(s) == [type |-> "str", text |-> s]
PyList(items) == [type |-> "list", items |-> items]
PyDict(items) == [type |-> "dict", items |-> items]

\* d[key]
Get(d, key) == d.items[CHOOSE i \in 1..Len(d.items) : d.items[i][1] = key][2]

\* d.get(key, default)
GetOr(d, key, default) ==
  IF \E i \in 1..Len(d.items) : d.items[i][1] = key THEN Get(d, key) ELSE default

\* json.dumps(v): the JSON document of a Python value
RECURSIVE json_dumps(_)
json_dumps(v) ==
  CASE v.type = "str"      -> [json |-> "string", chars |-> v.text]
    [] v.type = "num"      -> [json |-> "number", val |-> v.val]
    [] v.type = "NoneType" -> [json |-> "null"]
    [] v.type = "list"     -> [json |-> "array",
                               elements |-> [i \in 1..Len(v.items) |-> json_dumps(v.items[i])]]
    [] v.type = "dict"     -> [json |-> "object",
                               members |-> [i \in 1..Len(v.items) |->
                                              <<v.items[i][1], json_dumps(v.items[i][2])>>]]

\* json.loads(doc): the Python value of a JSON document
RECURSIVE json_loads(_)
json_loads(doc) ==
  CASE doc.json = "string" -> PyText(doc.chars)
    [] doc.json = "number" -> PyNum(doc.val)
    [] doc.json = "null"   -> None
    [] doc.json = "array"  -> PyList([i \in 1..Len(doc.elements) |-> json_loads(doc.elements[i])])
    [] doc.json = "object" -> PyDict([i \in 1..Len(doc.members) |->
                                        <<doc.members[i][1], json_loads(doc.members[i][2])>>])

\* a datetime, by its second and microsecond
DateTime(second, microsecond) ==
  [type |-> "datetime", second |-> second, microsecond |-> microsecond]

\* timestamp.isoformat(): the fraction is written only when the microsecond is not 0
isoformat(timestamp) ==
  PyText(IF timestamp.microsecond = 0 THEN <<timestamp.second>>
         ELSE <<timestamp.second, ".", timestamp.microsecond>>)

\* datetime.fromisoformat(s)
fromisoformat(s) ==
  IF Len(s.text) = 1 THEN DateTime(s.text[1], 0) ELSE DateTime(s.text[1], s.text[3])

\* SessionData(file_path, transcript, analysis, timestamp) with its optional attributes
SessionData(file_path, transcript_, analysis, timestamp) ==
  [ file_path |-> file_path, transcript |-> transcript_, analysis |-> analysis,
    timestamp |-> timestamp, id |-> None, platform |-> None, metadata |-> PyDict(<<>>),
    duration |-> None, file_size |-> None ]

\* SessionData.to_dict
to_dict(self) ==
  PyDict(<< <<"id", self.id>>, <<"file_path", self.file_path>>,
            <<"transcript", self.transcript>>, <<"analysis", self.analysis>>,
            <<"timestamp", isoformat(self.timestamp)>>, <<"platform", self.platform>>,
            <<"metadata", self.metadata>>, <<"duration", self.duration>>,
            <<"file_size", self.file_size>> >>)

\* SessionData.from_dict
from_dict(data) ==
  [ SessionData(Get(data, "file_path"), Get(data, "transcript"), Get(data, "analysis"),
                fromisoformat(Get(data, "timestamp")))
      EXCEPT !.id = GetOr(data, "id", None),
             !.platform = GetOr(data, "platform", None),
             !.metadata = GetOr(data, "metadata", PyDict(<<>>)),
             !.duration = GetOr(data, "duration", None),
             !.file_size = GetOr(data, "file_size", None) ]

\* SessionData.to_json and SessionData.from_json
to_json(self) == json_dumps(to_dict(self))
from_json(json_str) == from_dict(json_loads(json_str))

\* SecurityUtils.encrypt_data and decrypt_data with the key of encryption.key
encrypt_data(data) == [fernet |-> data]
decrypt_data(encrypted_data) == encrypted_data.fernet

\* f"session_{datetime.now().strftime('%Y%m%d_%H%M%S')}": the microsecond is not part of it
SessionId(now_) == PyText(<<"session_", now_.second>>)

\* session_dict of save_session
SessionDict(session_id, session_data_) ==
  PyDict(<< <<"id", session_id>>, <<"timestamp", isoformat(session_data_.timestamp)>>,
            <<"file_path", session_data_.file_path>>,
            <<"transcript", session_data_.transcript>>,
            <<"analysis", session_data_.analysis>>,
            <<"platform", session_data_.platform>>,
            <<"metadata", session_data_.metadata>> >>)

\* the SessionData load_session rebuilds from a session file
LoadedSession(encrypted_data) ==
  LET session_dict == json_loads(decrypt_data(encrypted_data))
  IN  [ SessionData(Get(session_dict, "file_path"), Get(session_dict, "transcript"),
                    Get(session_dict, "analysis"),
                    fromisoformat(Get(session_dict, "timestamp")))
          EXCEPT !.id = Get(session_dict, "id"),
                 !.platform = GetOr(session_dict, "platform", PyText(<<"manual">>)),
                 !.metadata = GetOr(session_dict, "metadata", PyDict(<<>>)) ]

----------------------------------------------------------------------------
(* Specification of the application holding, converting, saving and loading  *)
(* sessions                                                                  *)

\* seconds the clock may reach
MaxClock == 1

\* sessions saved in one run
MaxSaved == 2

\* the next instant of the clock: half a second later
NextInstant(t) ==
  IF t.microsecond = 0 THEN DateTime(t.second, 500000) ELSE DateTime(t.second + 1, 0)

TimePasses == now.second < MaxClock \/ now.microsecond = 0

\* transcripts of the sessions: "hopeless" and "I understand better"
SessionTranscripts == {Fragments[3], Fragments[10]}

\* the domain scores, negative patterns, insights and recommendations analyze_session
\* returns for a transcript when no provider is configured
SessionAnalysis(text) ==
  LET patterns == detect_negative_patterns(text)
      raw == [d \in AllDomains |->
                analyze_with_local_model(FrameworkPrompt(Frameworks[1], text)).score]
      adjusted == adjust_scores_for_negative_patterns(raw, patterns)
      fallback == FallbackInsights(patterns)
      texts(list) == PyList([i \in 1..Len(list) |-> PyText(list[i])])
  IN  PyDict(<<
        <<"domain_scores",
          PyDict([i \in 1..Len(Domains) |-> <<Domains[i], adjusted[Domains[i]]>>])>>,
        <<"negative_patterns",
          PyDict([i \in 1..Len(patterns) |->
                    <<patterns[i].category,
                      PyDict(<< <<"severity", PyNum(patterns[i].severity)>>,
                                <<"indicators", texts(patterns[i].indicators)>> >>)>>])>>,
        <<"key_insights", texts(fallback.insights)>>,
        <<"recommendations", texts(fallback.recommendations)>> >>)

\* the transcripts, each with its analysis
AnalyzedTranscripts == {<<t, SessionAnalysis(t)>> : t \in SessionTranscripts}

InitSessions ==
  /\ NoCallYet
  /\ openai_client = FALSE /\ huggingface_api_key = FALSE
  /\ transcript = NoneArg
  /\ pc = "sessions"

\* time passes between two operations
Tick ==
  /\ TimePasses
  /\ now' = NextInstant(now)
  /\ UNCHANGED << analysis_vars, session_data, sessions_dir, saved, loaded >>

\* SessionData(file_path, transcript, analysis): the timestamp is datetime.now()
NewSession ==
  /\ pc = "sessions"
  /\ \E analyzed \in AnalyzedTranscripts :
       session_data' = SessionData(PyText(<<"session.wav">>), PyText(analyzed[1]),
                                   analyzed[2], now)
  /\ UNCHANGED << analysis_vars, now, sessions_dir, saved, loaded >>

\* SessionData.from_dict(session_data.to_dict())
RoundTripDict ==
  /\ session_data # None
  /\ loaded' = [op |-> "from_dict", source |-> session_data,
                value |-> from_dict(to_dict(session_data))]
  /\ UNCHANGED << analysis_vars, now, session_data, sessions_dir, saved >>

\* SessionData.from_json(session_data.to_json())
RoundTripJson ==
  /\ session_data # None
  /\ loaded' = [op |-> "from_json", source |-> session_data,
                value |-> from_json(to_json(session_data))]
  /\ UNCHANGED << analysis_vars, now, session_data, sessions_dir, saved >>

\* save_session(session_data): the file sessions/<session_id>.enc is written and the id
\* returned; the call takes time
SaveSession ==
  /\ session_data # None /\ Len(saved) < MaxSaved /\ TimePasses
  /\ LET session_id == SessionId(now)
         encrypted_data == encrypt_data(json_dumps(SessionDict(session_id, session_data)))
     IN  /\ sessions_dir' = [f \in DOMAIN sessions_dir \cup {session_id} |->
                               IF f = session_id THEN encrypted_data ELSE sessions_dir[f]]
         /\ saved' = Append(saved, [id |-> session_id, session |-> session_data])
  /\ now' = NextInstant(now)
  /\ UNCHANGED << analysis_vars, session_data, loaded >>

\* load_session(session_id) with an id save_session returned
LoadSession ==
  /\ \E i \in 1..Len(saved) :
       /\ saved[i].id \in DOMAIN sessions_dir
       /\ loaded' = [op |-> "load_session", source |-> saved[i].session,
                     value |-> LoadedSession(sessions_dir[saved[i].id])]
  /\ UNCHANGED << analysis_vars, now, session_data, sessions_dir, saved >>

NextSessions ==
  \/ Tick
  \/ NewSession
  \/ RoundTripDict
  \/ RoundTripJson
  \/ SaveSession
  \/ LoadSession

SpecSessions == InitSessions /\ [][NextSessions]_vars

----------------------------------------------------------------------------
(* Specification of one call of _analyze_with_providers or of                *)
(* _analyze_with_local_model                                                *)

MaxPromptFragments == 1

\* prompts: a framework prompt around a text, a bare text, a dict, and values the local
\* model cannot read (None, a list)
PromptInputs ==
  {FrameworkPrompt(Frameworks[1], t) : t \in Texts(AllFragments, MaxPromptFragments)}
  \cup {StrPrompt(t) : t \in Texts(AllFragments, MaxPromptFragments)}
  \cup {[type |-> "dict", text |-> DictRepr],
        [type |-> "NoneType", text |-> <<>>],
        [type |-> "list", text |-> <<>>]}

InitProviders ==
  /\ openai_client \in BOOLEAN /\ huggingface_api_key \in BOOLEAN
  /\ transcript = NoneArg
  /\ negative_patterns = <<>> /\ domain_scores = <<>> /\ detailed_analysis = <<>>
  /\ adjusted_scores = <<>> /\ overall_insights = None /\ expert_evaluation = None
  /\ multi_assessment_results = None
  /\ prompt \in PromptInputs
  /\ provider_result = None
  /\ attempts = <<>> /\ outbound_calls = 0 /\ hosted_answers = 0
  /\ result = None /\ raised = FALSE
  /\ pc \in {"providers_call", "local_call"}
  /\ NoSessionYet

\* the bookkeeping of one run of the provider chain
Chained(chain) ==
  /\ provider_result' = chain.value
  /\ attempts' = chain.attempts
  /\ outbound_calls' = outbound_calls + Outbound(chain.attempts)
  /\ hosted_answers' = hosted_answers + (IF HostedAnswered(chain.attempts) THEN 1 ELSE 0)

ProvidersCall ==
  /\ pc = "providers_call"
  /\ pc' = "done"
  /\ \E third \in {analyze_with_local_model(prompt)} :
     \E o \in OpenAIChoices, h \in HFChoices :
       \E chain \in {analyze_with_providers(o, h, third)} :
           /\ Chained(chain)
           /\ raised' = (chain.value = Exception)
           /\ result' = IF chain.value = Exception THEN None ELSE chain.value
  /\ UNCHANGED << openai_client, huggingface_api_key, transcript, negative_patterns,
                  domain_scores, detailed_analysis, adjusted_scores, overall_insights,
                  expert_evaluation, multi_assessment_results, prompt >>
  /\ UNCHANGED session_vars

LocalCall ==
  /\ pc = "local_call"
  /\ pc' = "done"
  /\ \E value \in {analyze_with_local_model(prompt)} :
         /\ provider_result' = value
         /\ raised' = (value = Exception)
         /\ result' = IF value = Exception THEN None ELSE value
  /\ UNCHANGED << openai_client, huggingface_api_key, transcript, negative_patterns,
                  domain_scores, detailed_analysis, adjusted_scores, overall_insights,
                  expert_evaluation, multi_assessment_results, prompt, attempts,
                  outbound_calls, hosted_answers >>
  /\ UNCHANGED session_vars

NextProviders == ProvidersCall \/ LocalCall

SpecProviders == InitProviders /\ [][NextProviders]_vars

----------------------------------------------------------------------------
(* The local model on texts of chosen lengths *)

\* s * n
Repeat(s, n) == [i \in 1..(Len(s) * n) |-> s[((i - 1) % Len(s)) + 1]]

\* a word that holds no keyword of the four lists, and the blank after it
FillerWord == <<"l","a"," ">>

\* the numbers of filler words: each side of the limits 50, 200 and 500, and 600
FillerCounts == {0, 49, 50, 199, 200, 499, 500, 600}

\* what the filler words are followed by
Endings ==
  << <<>>,
     <<"t","e","l","l"," ","m","e"," ","m","o","r","e">>,
     <<"y","o","u"," ","s","h","o","u","l","d"," ","j","u","s","t"," ","f","i","x"," ","i","t">>,
     <<"i"," ","u","n","d","e","r","s","t","a","n","d"," ","b","e","t","t","e","r">>,
     <<"h","o","p","e","l","e","s","s"," ","a","n","d"," ","s","t","u","c","k">>,
     <<"N","o","t"," ","H","e","l","p","i","n","g">>,
     <<"l","i","s","t","e","n"," ","u","n","d","e","r","s","t","a","n","d"," ","e","x","p","l","o","r","e"," ","f","e","e","l"," ","r","e","f","l","e","c","t"," ","v","a","l","i","d","a","t","e"," ","s","u","p","p","o","r","t"," ","b","e","t","t","e","r"," ","p","r","o","g","r","e","s","s"," ","i","n","s","i","g","h","t"," ","r","e","a","l","i","z","e"," ","a","w","a","r","e"," ","g","r","o","w","t","h">>,
     <<"s","h","o","u","l","d"," ","m","u","s","t"," ","w","r","o","n","g"," ","b","a","d"," ","f","i","x"," ","s","o","l","v","e"," ","s","i","m","p","l","e"," ","j","u","s","t"," ","a","d","v","i","c","e"," ","o","b","v","i","o","u","s"," ","c","l","e","a","r","l","y"," ","w","o","r","s","e"," ","s","t","u","c","k"," ","h","o","p","e","l","e","s","s"," ","c","o","n","f","u","s","e","d"," ","f","r","u","s","t","r","a","t","e","d"," ","p","o","i","n","t","l","e","s","s"," ","w","a","s","t","e">> >>

\* a text of n filler words and the k-th ending
LocalInput(n, k) == Repeat(FillerWord, n) \o Endings[k]

InitLocalScore ==
  /\ openai_client = FALSE /\ huggingface_api_key = FALSE
  /\ transcript = NoneArg
  /\ negative_patterns = <<>> /\ domain_scores = <<>> /\ detailed_analysis = <<>>
  /\ adjusted_scores = <<>> /\ overall_insights = None /\ expert_evaluation = None
  /\ multi_assessment_results = None /\ provider_result = None
  /\ attempts = <<>> /\ outbound_calls = 0 /\ hosted_answers = 0
  /\ result = None /\ raised = FALSE
  /\ \E n \in FillerCounts, k \in 1..Len(Endings) :
       prompt \in {StrPrompt(LocalInput(n, k)), FrameworkPrompt(Frameworks[1], LocalInput(n, k))}
  /\ pc = "local_call"
  /\ NoSessionYet

NextLocalScore == LocalCall

SpecLocalScore == InitLocalScore /\ [][NextLocalScore]_vars

----------------------------------------------------------------------------
(* Specification of analyze_session: one call, step by step *)

\* hosted calls that answer during one analyze_session call
MaxHostedAnswers == 1

\* the transcript of the 'concerning' demo session of the application
DemoTranscript ==
  <<"\n"," "," "," "," "," "," "," "," ","T","h","e","r","a","p","i","s","t",":"," ","H","o",
    "w"," ","h","a","v","e"," ","y","o","u"," ","b","e","e","n"," ","f","e","e","l","i","n",
    "g"," ","s","i","n","c","e"," ","o","u","r"," ","l","a","s","t"," ","s","e","s","s","i",
    "o","n","?","\n"," "," "," "," "," "," "," "," ","\n"," "," "," "," "," "," "," "," ","C",
    "l","i","e","n","t",":"," ","H","o","n","e","s","t","l","y",","," ","I"," ","d","o","n",
    "'","t"," ","t","h","i","n","k"," ","t","h","i","s"," ","i","s"," ","h","e","l","p","i",
    "n","g","."," ","I"," ","f","e","e","l"," ","l","i","k","e"," ","I","'","m"," ","g","e",
    "t","t","i","n","g"," ","w","o","r","s","e",","," ","n","o","t"," ","b","e","t","t","e",
    "r","."," ","T","h","e"," ","a","n","x","i","e","t","y"," ","i","s"," ","o","v","e","r",
    "w","h","e","l","m","i","n","g"," ","a","n","d"," ","I"," ","c","a","n","'","t"," ","c",
    "o","p","e"," ","a","n","y","m","o","r","e",".","\n"," "," "," "," "," "," "," "," ","\n",
    " "," "," "," "," "," "," "," ","T","h","e","r","a","p","i","s","t",":"," ","I"," ","u",
    "n","d","e","r","s","t","a","n","d"," ","t","h","i","s"," ","i","s"," ","d","i","f","f",
    "i","c","u","l","t","."," ","C","a","n"," ","y","o","u"," ","t","e","l","l"," ","m","e",
    " ","m","o","r","e"," ","a","b","o","u","t"," ","w","h","a","t","'","s"," ","n","o","t",
    " ","w","o","r","k","i","n","g","?","\n"," "," "," "," "," "," "," "," ","\n"," "," "," ",
    " "," "," "," "," ","C","l","i","e","n","t",":"," ","N","o","t","h","i","n","g"," ","w",
    "o","r","k","s","."," ","I","'","v","e"," ","t","r","i","e","d"," ","e","v","e","r","y",
    "t","h","i","n","g"," ","y","o","u"," ","s","u","g","g","e","s","t","e","d"," ","b","u",
    "t"," ","i","t","'","s"," ","a","l","l"," ","p","o","i","n","t","l","e","s","s","."," ",
    "I","'","m"," ","h","o","p","e","l","e","s","s"," ","a","n","d"," ","I"," ","d","o","n",
    "'","t"," ","s","e","e"," ","t","h","e"," ","p","o","i","n","t"," ","i","n"," ","c","o",
    "n","t","i","n","u","i","n","g","."," ","Y","o","u"," ","d","o","n","'","t"," ","r","e",
    "a","l","l","y"," ","u","n","d","e","r","s","t","a","n","d"," ","w","h","a","t"," ","I",
    "'","m"," ","g","o","i","n","g"," ","t","h","r","o","u","g","h",".","\n"," "," "," "," ",
    " "," "," "," ","\n"," "," "," "," "," "," "," "," ","T","h","e","r","a","p","i","s","t",
    ":"," ","I"," ","h","e","a","r"," ","t","h","a","t"," ","y","o","u","'","r","e"," ","f",
    "e","e","l","i","n","g"," ","f","r","u","s","t","r","a","t","e","d"," ","w","i","t","h",
    " ","o","u","r"," ","w","o","r","k"," ","t","o","g","e","t","h","e","r",".","\n"," "," ",
    " "," "," "," "," "," ","\n"," "," "," "," "," "," "," "," ","C","l","i","e","n","t",":",
    " ","F","r","u","s","t","r","a","t","e","d"," ","d","o","e","s","n","'","t"," ","e","v",
    "e","n"," ","b","e","g","i","n"," ","t","o"," ","c","o","v","e","r"," ","i","t","."," ",
    "I","'","m"," ","a","n","g","r","y"," ","t","h","a","t"," ","I","'","m"," ","w","a","s",
    "t","i","n","g"," ","m","y"," ","t","i","m","e"," ","a","n","d"," ","m","o","n","e","y",
    " ","o","n"," ","t","h","i","s","."," ","I","'","v","e"," ","b","e","e","n"," ","c","o",
    "m","i","n","g"," ","h","e","r","e"," ","f","o","r"," ","m","o","n","t","h","s"," ","w",
    "i","t","h"," ","n","o"," ","p","r","o","g","r","e","s","s","."," ","I","'","m"," ","s",
    "t","u","c","k"," ","i","n"," ","t","h","e"," ","s","a","m","e"," ","p","a","t","t","e",
    "r","n","s"," ","a","n","d"," ","I"," ","w","a","n","t"," ","t","o"," ","g","i","v","e",
    " ","u","p",".","\n"," "," "," "," "," "," "," "," ","\n"," "," "," "," "," "," "," "," ",
    "T","h","e","r","a","p","i","s","t",":"," ","I","t"," ","s","o","u","n","d","s"," ","l",
    "i","k","e"," ","y","o","u","'","r","e"," ","e","x","p","e","r","i","e","n","c","i","n",
    "g"," ","s","o","m","e"," ","s","t","r","o","n","g"," ","f","e","e","l","i","n","g","s",
    " ","a","b","o","u","t"," ","t","h","e","r","a","p","y"," ","r","i","g","h","t"," ","n",
    "o","w",".","\n"," "," "," "," "," "," "," "," ","\n"," "," "," "," "," "," "," "," ","C",
    "l","i","e","n","t",":"," ","I"," ","d","o","n","'","t"," ","f","e","e","l"," ","s","a",
    "f","e"," ","o","r"," ","u","n","d","e","r","s","t","o","o","d"," ","h","e","r","e",".",
    " ","T","h","i","s"," ","t","h","e","r","a","p","y"," ","i","s","n","'","t"," ","w","o",
    "r","k","i","n","g"," ","a","n","d"," ","I","'","m"," ","t","h","i","n","k","i","n","g",
    " ","a","b","o","u","t"," ","n","o","t"," ","c","o","m","i","n","g"," ","b","a","c","k",
    "."," ","I"," ","f","e","e","l"," ","m","o","r","e"," ","d","e","p","r","e","s","s","e",
    "d"," ","t","h","a","n"," ","w","h","e","n"," ","I"," ","s","t","a","r","t","e","d",".",
    "\n"," "," "," "," "," "," "," "," ">>

\* the transcript of the 'positive' demo session of the application
PositiveDemoTranscript ==
  <<"\n"," "," "," "," "," "," "," "," ","T","h","e","r","a","p","i","s","t",":"," ","H","o",
    "w"," ","a","r","e"," ","y","o","u"," ","f","e","e","l","i","n","g"," ","t","o","d","a",
    "y","?","\n"," "," "," "," "," "," "," "," ","\n"," "," "," "," "," "," "," "," ","C","l",
    "i","e","n","t",":"," ","I","'","v","e"," ","b","e","e","n"," ","f","e","e","l","i","n",
    "g"," ","b","e","t","t","e","r"," ","l","a","t","e","l","y","."," ","I"," ","h","a","d",
    " ","a"," ","d","i","f","f","i","c","u","l","t"," ","w","e","e","k"," ","a","t"," ","w",
    "o","r","k",","," ","b","u","t"," ","I","'","m"," ","s","t","a","r","t","i","n","g"," ",
    "t","o"," ","u","n","d","e","r","s","t","a","n","d"," ","h","o","w"," ","t","o"," ","h",
    "a","n","d","l","e"," ","s","t","r","e","s","s"," ","b","e","t","t","e","r","."," ","I",
    "'","v","e"," ","b","e","e","n"," ","p","r","a","c","t","i","c","i","n","g"," ","t","h",
    "e"," ","b","r","e","a","t","h","i","n","g"," ","e","x","e","r","c","i","s","e","s"," ",
    "w","e"," ","t","a","l","k","e","d"," ","a","b","o","u","t",".","\n"," "," "," "," "," ",
    " "," "," ","\n"," "," "," "," "," "," "," "," ","T","h","e","r","a","p","i","s","t",":",
    " ","T","h","a","t","'","s"," ","g","r","e","a","t"," ","p","r","o","g","r","e","s","s",
    "."," ","W","h","a","t"," ","s","p","e","c","i","f","i","c","a","l","l","y"," ","h","e",
    "l","p","e","d"," ","y","o","u"," ","f","e","e","l"," ","b","e","t","t","e","r","?","\n",
    " "," "," "," "," "," "," "," ","\n"," "," "," "," "," "," "," "," ","C","l","i","e","n",
    "t",":"," ","I"," ","t","h","i","n","k"," ","r","e","c","o","g","n","i","z","i","n","g",
    " ","m","y"," ","p","a","t","t","e","r","n","s"," ","h","e","l","p","e","d","."," ","W",
    "h","e","n"," ","I"," ","f","e","e","l"," ","o","v","e","r","w","h","e","l","m","e","d",
    ","," ","I"," ","n","o","w"," ","t","a","k","e"," ","a"," ","s","t","e","p"," ","b","a",
    "c","k"," ","i","n","s","t","e","a","d"," ","o","f"," ","g","e","t","t","i","n","g"," ",
    "a","n","x","i","o","u","s","."," ","I"," ","a","l","s","o"," ","t","a","l","k","e","d",
    " ","t","o"," ","m","y"," ","s","u","p","e","r","v","i","s","o","r"," ","a","b","o","u",
    "t"," ","m","y"," ","w","o","r","k","l","o","a","d",","," ","w","h","i","c","h"," ","w",
    "a","s"," ","s","c","a","r","y"," ","b","u","t"," ","w","e","n","t"," ","w","e","l","l",
    ".","\n"," "," "," "," "," "," "," "," ","\n"," "," "," "," "," "," "," "," ","T","h","e",
    "r","a","p","i","s","t",":"," ","Y","o","u"," ","m","e","n","t","i","o","n","e","d"," ",
    "f","e","e","l","i","n","g"," ","s","c","a","r","e","d","."," ","C","a","n"," ","y","o",
    "u"," ","t","e","l","l"," ","m","e"," ","m","o","r","e"," ","a","b","o","u","t"," ","t",
    "h","a","t","?","\n"," "," "," "," "," "," "," "," ","\n"," "," "," "," "," "," "," "," ",
    "C","l","i","e","n","t",":"," ","I"," ","w","a","s"," ","w","o","r","r","i","e","d"," ",
    "t","h","e","y","'","d"," ","t","h","i","n","k"," ","I"," ","w","a","s","n","'","t"," ",
    "c","a","p","a","b","l","e","."," ","B","u","t"," ","a","c","t","u","a","l","l","y",",",
    " ","t","h","e","y"," ","w","e","r","e"," ","u","n","d","e","r","s","t","a","n","d","i",
    "n","g"," ","a","n","d"," ","w","e"," ","w","o","r","k","e","d"," ","o","u","t"," ","a",
    " ","b","e","t","t","e","r"," ","s","c","h","e","d","u","l","e","."," ","I"," ","f","e",
    "e","l"," ","m","o","r","e"," ","c","o","n","f","i","d","e","n","t"," ","n","o","w",".",
    "\n"," "," "," "," "," "," "," "," ","\n"," "," "," "," "," "," "," "," ","T","h","e","r",
    "a","p","i","s","t",":"," ","I","t"," ","s","o","u","n","d","s"," ","l","i","k","e"," ",
    "y","o","u","'","r","e"," ","d","e","v","e","l","o","p","i","n","g"," ","g","o","o","d",
    " ","s","e","l","f","-","a","w","a","r","e","n","e","s","s"," ","a","n","d"," ","c","o",
    "m","m","u","n","i","c","a","t","i","o","n"," ","s","k","i","l","l","s","."," ","H","o",
    "w"," ","d","o"," ","y","o","u"," ","f","e","e","l"," ","a","b","o","u","t"," ","t","h",
    "e"," ","p","r","o","g","r","e","s","s"," ","y","o","u","'","v","e"," ","m","a","d","e",
    "?","\n"," "," "," "," "," "," "," "," ","\n"," "," "," "," "," "," "," "," ","C","l","i",
    "e","n","t",":"," ","I","'","m"," ","p","r","o","u","d"," ","o","f"," ","m","y","s","e",
    "l","f","."," ","A"," ","f","e","w"," ","m","o","n","t","h","s"," ","a","g","o",","," ",
    "I"," ","w","o","u","l","d"," ","h","a","v","e"," ","j","u","s","t"," ","s","u","f","f",
    "e","r","e","d"," ","i","n"," ","s","i","l","e","n","c","e","."," ","N","o","w"," ","I",
    "'","m"," ","l","e","a","r","n","i","n","g"," ","t","o"," ","s","p","e","a","k"," ","u",
    "p"," ","a","n","d"," ","t","a","k","e"," ","c","a","r","e"," ","o","f"," ","m","y","s",
    "e","l","f"," ","b","e","t","t","e","r",".","\n"," "," "," "," "," "," "," "," ">>

\* session transcripts: the empty text, "Not Helping", "hopeless", "I understand better",
\* "I understand better and Respond in JSON format and hopeless" and the two demo
\* transcripts
SessionTexts ==
  { <<>>, Fragments[2], Fragments[3], Fragments[10],
    Fragments[10] \o Fragments[9] \o Fragments[12] \o Fragments[9] \o Fragments[3],
    DemoTranscript, PositiveDemoTranscript }

\* the ten prompts analyze_session builds from one transcript
SessionPrompts(text) ==
  {FrameworkPrompt(Frameworks[i], text) : i \in 1..Len(Frameworks)}
  \cup {SynthesisPrompt(detect_negative_patterns(text)), ExpertPrompt(text),
        ChorusPrompt(text)}

\* what _analyze_with_local_model returns for each prompt of the session transcripts
LocalAnswers ==
  {<<p, analyze_with_local_model(p)>> : p \in UNION {SessionPrompts(t) : t \in SessionTexts}}

\* self._analyze_with_local_model(prompt, system_context), read from LocalAnswers for the
\* prompts listed there
LocalAnswer(p) ==
  IF \E answer \in LocalAnswers : answer[1] = p
  THEN (CHOOSE answer \in LocalAnswers : answer[1] = p)[2]
  ELSE analyze_with_local_model(p)

Init ==
  /\ NoCallYet
  /\ openai_client \in BOOLEAN /\ huggingface_api_key \in BOOLEAN
  /\ transcript \in {StrArg(t) : t \in SessionTexts} \cup {NoneArg}
  /\ pc = "detect_patterns"

\* an exception reaches the except block of analyze_session
Caught ==
  /\ pc' = "done"
  /\ result' = ExceptHandler.result
  /\ raised' = ExceptHandler.raised

\* line 123
DetectPatterns ==
  /\ pc = "detect_patterns"
  /\ IF transcript.is_str
     THEN /\ negative_patterns' = detect_negative_patterns(transcript.text)
          /\ pc' = "frameworks"
          /\ UNCHANGED << result, raised >>
     ELSE /\ Caught
          /\ UNCHANGED negative_patterns
  /\ UNCHANGED << openai_client, huggingface_api_key, transcript, domain_scores,
                  detailed_analysis, adjusted_scores, overall_insights, expert_evaluation,
                  multi_assessment_results, prompt, provider_result, attempts,
                  outbound_calls, hosted_answers >>
  /\ UNCHANGED session_vars

\* lines 129-162: the next of the seven analyzers
AnalyzeFramework ==
  /\ pc = "frameworks"
  /\ LET framework == Frameworks[Cardinality(DOMAIN detailed_analysis) + 1] IN
     \E p \in {FrameworkPrompt(framework, transcript.text)} :
     \E third \in {LocalAnswer(p)} :
     \E o \in OpenAIChoices, h \in HFChoices :
       \E chain \in {analyze_with_providers(o, h, third)} :
           LET analysis == chain.value IN
           /\ prompt' = p
           /\ Chained(chain)
           /\ hosted_answers' <= MaxHostedAnswers
           /\ IF ~HasKey(analysis, "score")
              THEN /\ Caught     \* analysis['score']: KeyError
                   /\ UNCHANGED << domain_scores, detailed_analysis >>
              ELSE /\ domain_scores' = (framework.domain :> analysis.score) @@ domain_scores
                   /\ detailed_analysis' = (framework.name :> analysis) @@ detailed_analysis
                   /\ pc' = IF Cardinality(DOMAIN detailed_analysis') = Len(Frameworks)
                            THEN "adjust" ELSE "frameworks"
                   /\ UNCHANGED << result, raised >>
  /\ UNCHANGED << openai_client, huggingface_api_key, transcript, negative_patterns,
                  adjusted_scores, overall_insights, expert_evaluation,
                  multi_assessment_results >>
  /\ UNCHANGED session_vars

\* line 165
AdjustScores ==
  /\ pc = "adjust"
  /\ IF AdjustRaises(domain_scores, negative_patterns)
     THEN /\ Caught
          /\ UNCHANGED << adjusted_scores, domain_scores, negative_patterns >>
     ELSE \E call \in {adjust_scores_call(domain_scores, negative_patterns)} :
            /\ adjusted_scores' = call.returned
            /\ domain_scores' = call.domain_scores
            /\ negative_patterns' = call.negative_patterns
            /\ pc' = "multi_assessment"
            /\ UNCHANGED << result, raised >>
  /\ UNCHANGED << openai_client, huggingface_api_key, transcript, detailed_analysis,
                  overall_insights, expert_evaluation, multi_assessment_results, prompt,
                  provider_result, attempts, outbound_calls, hosted_answers >>
  /\ UNCHANGED session_vars

\* what conduct_comprehensive_assessment returns for each session transcript
SessionAssessments ==
  {<<t, conduct_comprehensive_assessment(t)>> : t \in SessionTexts}

\* self.multi_assessment.conduct_comprehensive_assessment(transcript), read from
\* SessionAssessments for the transcripts listed there
Assessment(text) ==
  IF \E assessed \in SessionAssessments : assessed[1] = text
  THEN (CHOOSE assessed \in SessionAssessments : assessed[1] = text)[2]
  ELSE conduct_comprehensive_assessment(text)

\* line 168
MultiAssessment ==
  /\ pc = "multi_assessment"
  /\ multi_assessment_results' = Assessment(transcript.text)
  /\ pc' = "insights"
  /\ UNCHANGED << openai_client, huggingface_api_key, transcript, negative_patterns,
                  domain_scores, detailed_analysis, adjusted_scores, overall_insights,
                  expert_evaluation, prompt, provider_result, attempts, outbound_calls,
                  hosted_answers, result, raised >>
  /\ UNCHANGED session_vars

\* line 171
OverallInsights ==
  /\ pc = "insights"
  /\ \E p \in {SynthesisPrompt(negative_patterns)} :
     \E third \in {LocalAnswer(p)} :
     \E o \in OpenAIChoices, h \in HFChoices :
       \E chain \in {analyze_with_providers(o, h, third)} :
           /\ prompt' = p
           /\ Chained(chain)
           /\ hosted_answers' <= MaxHostedAnswers
           /\ IF chain.value = Exception
              THEN /\ Caught
                   /\ UNCHANGED overall_insights
              ELSE /\ overall_insights' = generate_overall_insights(chain.value,
                                                                    negative_patterns)
                   /\ pc' = "expert"
                   /\ UNCHANGED << result, raised >>
  /\ UNCHANGED << openai_client, huggingface_api_key, transcript, negative_patterns,
                  domain_scores, detailed_analysis, adjusted_scores, expert_evaluation,
                  multi_assessment_results >>
  /\ UNCHANGED session_vars

\* line 174
ExpertEvaluation ==
  /\ pc = "expert"
  /\ \E p \in {ExpertPrompt(transcript.text)} :
     \E third \in {LocalAnswer(p)} :
     \E o \in OpenAIChoices, h \in HFChoices :
       \E chain \in {analyze_with_providers(o, h, third)} :
           /\ prompt' = p
           /\ Chained(chain)
           /\ hosted_answers' <= MaxHostedAnswers
           /\ IF chain.value = Exception \/ ExpertRaises(chain.value)
              THEN /\ Caught
                   /\ UNCHANGED expert_evaluation
              ELSE /\ expert_evaluation' = expert_therapist_evaluation(chain.value)
                   /\ pc' = "chorus"
                   /\ UNCHANGED << result, raised >>
  /\ UNCHANGED << openai_client, huggingface_api_key, transcript, negative_patterns,
                  domain_scores, detailed_analysis, adjusted_scores, overall_insights,
                  multi_assessment_results >>
  /\ UNCHANGED session_vars

\* the returned dict with the adjusted score written into every framework analysis
SessionResultRescored(chorus_analysis) ==
  [ domain_scores |-> adjusted_scores,
    detailed_analysis |->
      [name \in DOMAIN detailed_analysis |->
         LET framework == Frameworks[CHOOSE i \in 1..Len(Frameworks) :
                                       Frameworks[i].name = name]
         IN  [detailed_analysis[name] EXCEPT !.score = adjusted_scores[framework.domain]]],
    multi_assessment_results |-> multi_assessment_results,
    negative_patterns |-> negative_patterns,
    key_insights |-> overall_insights.insights,
    recommendations |-> overall_insights.recommendations,
    session_themes |-> overall_insights.themes,
    progress_indicators |-> overall_insights.progress_indicators,
    therapy_effectiveness |-> assess_therapy_effectiveness(adjusted_scores, negative_patterns),
    warning_signs |-> generate_warning_signs(negative_patterns),
    expert_therapist_evaluation |-> expert_evaluation,
    chorus_analysis |-> chorus_analysis ]

\* the dict of lines 182-197; therapist_evaluation (line 177, which catches its own
\* exceptions) and the timestamp are left out
SessionResult(chorus_analysis) ==
  [ domain_scores |-> adjusted_scores,
    detailed_analysis |-> detailed_analysis,
    multi_assessment_results |-> multi_assessment_results,
    negative_patterns |-> negative_patterns,
    key_insights |-> overall_insights.insights,
    recommendations |-> overall_insights.recommendations,
    session_themes |-> overall_insights.themes,
    progress_indicators |-> overall_insights.progress_indicators,
    therapy_effectiveness |-> assess_therapy_effectiveness(adjusted_scores, negative_patterns),
    warning_signs |-> generate_warning_signs(negative_patterns),
    expert_therapist_evaluation |-> expert_evaluation,
    chorus_analysis |-> chorus_analysis ]

\* lines 177-197: therapist evaluation, chorus analysis and the returned dict
ChorusAndReturn ==
  /\ pc = "chorus"
  /\ \E p \in {ChorusPrompt(transcript.text)} :
     \E third \in {LocalAnswer(p)} :
     \E o \in OpenAIChoices, h \in HFChoices :
       \E chain \in {analyze_with_providers(o, h, third)} :
           /\ prompt' = p
           /\ Chained(chain)
           /\ hosted_answers' <= MaxHostedAnswers
           /\ IF \/ chain.value = Exception
                 \/ ~(InsightKeys \subseteq DOMAIN overall_insights)  \* KeyError
                 \/ EffectivenessRaises(adjusted_scores)               \* TypeError
              THEN Caught
              ELSE /\ result' = SessionResult(chain.value)
                   /\ pc' = "done"
                   /\ UNCHANGED raised
  /\ UNCHANGED << openai_client, huggingface_api_key, transcript, negative_patterns,
                  domain_scores, detailed_analysis, adjusted_scores, overall_insights,
                  expert_evaluation, multi_assessment_results >>
  /\ UNCHANGED session_vars

Next ==
  \/ DetectPatterns
  \/ AnalyzeFramework
  \/ AdjustScores
  \/ MultiAssessment
  \/ OverallInsights
  \/ ExpertEvaluation
  \/ ChorusAndReturn

Spec == Init /\ [][Next]_vars

----------------------------------------------------------------------------
(* Specification of one call of conduct_comprehensive_assessment or of       *)
(* _analyze_structured_elements                                              *)

\* the transcripts assessed: up to MaxFragments pieces, and the two demo sessions
AssessmentTexts ==
  Texts(AllFragments, MaxFragments) \cup {DemoTranscript, PositiveDemoTranscript}

InitAssessment ==
  /\ NoCallYet
  /\ openai_client = FALSE /\ huggingface_api_key = FALSE
  /\ transcript \in {StrArg(t) : t \in AssessmentTexts}
  /\ pc = "assessment_call"

\* lines 171-228
AssessmentCall ==
  /\ pc = "assessment_call"
  /\ pc' = "done"
  /\ result' = conduct_comprehensive_assessment(transcript.text)
  /\ UNCHANGED << openai_client, huggingface_api_key, transcript, negative_patterns,
                  domain_scores, detailed_analysis, adjusted_scores, overall_insights,
                  expert_evaluation, multi_assessment_results, prompt, provider_result,
                  attempts, outbound_calls, hosted_answers, raised >>
  /\ UNCHANGED session_vars

\* lines 248-266
StructuredCall ==
  /\ pc = "assessment_call"
  /\ pc' = "done"
  /\ result' = analyze_structured_elements(transcript.text)
  /\ UNCHANGED << openai_client, huggingface_api_key, transcript, negative_patterns,
                  domain_scores, detailed_analysis, adjusted_scores, overall_insights,
                  expert_evaluation, multi_assessment_results, prompt, provider_result,
                  attempts, outbound_calls, hosted_answers, raised >>
  /\ UNCHANGED session_vars

NextAssessment == AssessmentCall \/ StructuredCall

SpecAssessment == InitAssessment /\ [][NextAssessment]_vars

-----------------------------------------------------------------------------
\* Properties of analyze_session and of the provider chain

\* a score that is a number between 1.0 and 10.0
ScoreInRange(score) ==
  score.type = "num" /\ Scale <= score.val /\ score.val <= 10 * Scale

\* analyze_session has returned a result mapping
Returned == pc = "done" /\ result # None

\* the keys of the mapping analyze_session returns
ResultKeys ==
  { "domain_scores", "detailed_analysis", "multi_assessment_results", "negative_patterns",
    "key_insights", "recommendations", "session_themes", "progress_indicators",
    "therapy_effectiveness", "warning_signs", "expert_therapist_evaluation",
    "chorus_analysis" }

\* C1: every adjusted domain score of a non-null analyze_session result lies in
\* [1.0, 10.0], whatever the providers answered
C1_AdjustedScoresInRange ==
  Returned =>
    \A d \in DOMAIN result.domain_scores : ScoreInRange(result.domain_scores[d])

\* the position of a tier in the order OpenAI, Hugging Face, local
TierRank(tier) ==
  CASE tier = "openai" -> 1 [] tier = "huggingface" -> 2 [] tier = "local" -> 3

\* a tier is configured; the local tier always is
Configured(tier) ==
  CASE tier = "openai" -> openai_client
    [] tier = "huggingface" -> huggingface_api_key
    [] tier = "local" -> TRUE

\* _analyze_with_providers was called and has returned or raised
ChainCalled == attempts # <<>>

\* C2: in every call of _analyze_with_providers the tiers are attempted in the order
\* OpenAI, Hugging Face, local; a hosted tier is attempted only if configured; a later
\* tier is attempted only after every earlier configured tier has failed; after a
\* tier succeeds no later tier is invoked and the successful tier's value is returned
C2_TierOrder ==
  ChainCalled =>
    /\ \A i, j \in 1..Len(attempts) :
         i < j => TierRank(attempts[i].tier) < TierRank(attempts[j].tier)
    /\ \A i \in 1..Len(attempts) :
         /\ Configured(attempts[i].tier)
         /\ \A tier \in {"openai", "huggingface"} :
              (Configured(tier) /\ TierRank(tier) < TierRank(attempts[i].tier)) =>
                \E k \in 1..(i - 1) : attempts[k].tier = tier /\ ~attempts[k].ok
         /\ attempts[i].ok => i = Len(attempts)
    /\ LET last == attempts[Len(attempts)] IN
         /\ last.ok
         /\ last.tier = "openai" => provider_result \in HostedObjects
         /\ last.tier = "huggingface" => provider_result = create_basic_analysis
         /\ last.tier = "local" => provider_result = analyze_with_local_model(prompt)

\* both hosted tiers were configured and failed, and the local tier answered
C2_Witness ==
  /\ pc = "done"
  /\ Len(attempts) = 3
  /\ attempts[1] = [tier |-> "openai", ok |-> FALSE]
  /\ attempts[2] = [tier |-> "huggingface", ok |-> FALSE]
  /\ attempts[3] = [tier |-> "local", ok |-> TRUE]

\* C3: a failing hosted provider is never surfaced: _analyze_with_providers does not
\* raise, a call in which no hosted tier answered ends in the local tier, and a session
\* in which every hosted call failed still returns a non-null result
C3_HostedFailureAbsorbed ==
  /\ provider_result # Exception
  /\ (ChainCalled /\ ~HostedAnswered(attempts)) =>
        /\ attempts[Len(attempts)].tier = "local"
        /\ provider_result = LocalAnswer(prompt)
  /\ (pc = "done" /\ transcript.is_str /\ hosted_answers = 0) =>
        result # None /\ ~raised

\* both hosted tiers were configured and failed in each of the ten provider calls of
\* the session, which returned a result
C3_Witness ==
  /\ Returned
  /\ openai_client /\ huggingface_api_key
  /\ outbound_calls = 2 * (Len(Frameworks) + 3)
  /\ hosted_answers = 0

\* _analyze_with_local_model was called on its own and has returned or raised
LocalCalled == pc = "done" /\ attempts = <<>>

\* C4: _analyze_with_local_model never raises and always returns a numeric score; when
\* its scoring fails it returns the minimal result with score 5, placeholder evidence
\* lists and an explanatory note
C4_LocalModelTotal ==
  LocalCalled =>
    /\ ~raised
    /\ HasKey(provider_result, "score")
    /\ provider_result.score.type = "num"
    /\ LocalRaises(prompt) =>
         /\ provider_result.score = PyNum(5 * Scale)
         /\ \A k \in {"empathy_evidence", "genuineness_indicators",
                       "positive_regard_moments", "client_self_exploration"} :
              provider_result[k] = <<"Local analysis - error occurred">>
         /\ provider_result.note = "Analysis unavailable due to error"

\* the local model was given a prompt that is no string and no dict, and returned the
\* minimal result
C4_Witness ==
  /\ LocalCalled
  /\ prompt.type = "NoneType"
  /\ provider_result.score = PyNum(5 * Scale)

\* C5: analyze_session never raises: an exception in any step is turned into the
\* return value None; otherwise the complete result mapping is returned
C5_NeverRaises ==
  /\ ~raised
  /\ pc = "done" => (result = None \/ (IsDict(result) /\ DOMAIN result = ResultKeys))

\* an exception in the score adjustment (a hosted provider answered with a string
\* score) ended the session with None
C5_Witness ==
  /\ pc = "done" /\ result = None /\ ~raised
  /\ DOMAIN domain_scores = AllDomains
  /\ AdjustRaises(domain_scores, negative_patterns)

\* the keys of detailed_analysis
FrameworkNames == {Frameworks[i].name : i \in 1..Len(Frameworks)}

\* the verdicts of _assess_therapy_effectiveness
EffectivenessStatuses == {"concerning", "mixed", "positive"}

\* C6: with no OpenAI client and no Hugging Face key, analyze_session on a transcript
\* string makes no outbound provider call and returns a non-null result holding the
\* seven domain scores, the seven framework analyses, negative_patterns, the
\* multi-method assessment, insights, recommendations, themes, progress indicators and
\* the effectiveness verdict
C6_NoCredentials ==
  (~openai_client /\ ~huggingface_api_key) =>
    /\ outbound_calls = 0
    /\ (pc = "done" /\ transcript.is_str) =>
         /\ result # None
         /\ DOMAIN result.domain_scores = AllDomains
         /\ DOMAIN result.detailed_analysis = FrameworkNames
         /\ result.negative_patterns = detect_negative_patterns(transcript.text)
         /\ result.multi_assessment_results = conduct_comprehensive_assessment(transcript.text)
         /\ result.key_insights # <<>> /\ result.recommendations # <<>>
         /\ result.session_themes # <<>> /\ result.progress_indicators # <<>>
         /\ result.therapy_effectiveness.status \in EffectivenessStatuses

\* a session without credentials on a transcript with a negative pattern has returned
C6_Witness ==
  /\ Returned
  /\ ~openai_client /\ ~huggingface_api_key
  /\ result.negative_patterns # <<>>
  /\ outbound_calls = 0

\* the value the analyzer called last has returned; no later step has run
AnalyzerReturned ==
  /\ provider_result # None
  /\ adjusted_scores = <<>> /\ multi_assessment_results = None

\* C7: each framework analyzer returns a result whose score is present, numeric and
\* within [1, 10], whichever tier produced it and whatever that tier returned
C7_AnalyzerScoreContract ==
  AnalyzerReturned =>
    HasKey(provider_result, "score") /\ ScoreInRange(provider_result.score)

\* C8: the seven domain keys are present in the raw and in the adjusted score set of
\* every analysis run, and the domain of an analyzer whose result carries no score is
\* present with the value 0
C8_DomainKeysPresent ==
  (pc = "done" /\ transcript.is_str) =>
    /\ DOMAIN domain_scores = AllDomains
    /\ DOMAIN adjusted_scores = AllDomains
    /\ (AnalyzerReturned /\ ~HasKey(provider_result, "score")) =>
         LET failed == Frameworks[Cardinality(DOMAIN detailed_analysis) + 1].domain
         IN  failed \in DOMAIN domain_scores /\ domain_scores[failed] = PyNum(0)

\* C9: _detect_negative_patterns returns an entry for a category if and only if at
\* least one of the category's indicator phrases is a substring of the lower-cased
\* transcript; the entry's severity is the number of matched indicators divided by the
\* number of indicators declared for the category, so 0 < severity <= 1
C9_DetectionRule ==
  (pc = "done" /\ transcript.is_str) =>
    LET transcript_lower == Lower(transcript.text)
        entries == 1..Len(negative_patterns)
    IN  /\ \A j \in entries :
              \E i \in 1..Len(negative_indicators) :
                negative_patterns[j].category = negative_indicators[i].category
        /\ \A i \in 1..Len(negative_indicators) :
              LET declared == negative_indicators[i].indicators
                  hits == {k \in 1..Len(declared) : Contains(transcript_lower, declared[k])}
                  present == {j \in entries :
                                negative_patterns[j].category = negative_indicators[i].category}
              IN  /\ (present # {}) <=> (hits # {})
                  /\ Cardinality(present) <= 1
                  /\ \A j \in present :
                       /\ negative_patterns[j].severity * Len(declared)
                            = Cardinality(hits) * SevScale
                       /\ 0 < negative_patterns[j].severity
                       /\ negative_patterns[j].severity <= SevScale

\* a transcript matched one of the eight indicators of one category and an indicator of
\* another category
C9_Witness ==
  /\ pc = "done" /\ transcript.is_str
  /\ Len(negative_patterns) = 2
  /\ \E j \in 1..Len(negative_patterns) :
       /\ negative_patterns[j].category = "stagnation_signs"
       /\ negative_patterns[j].severity = SevScale \div 8

RECURSIVE StepsOn(_, _)
\* base_penalty * severity of every step that targets the domain, in the order of the
\* detected categories and of the pairs of each category
StepsOn(domain, patterns) ==
  IF patterns = <<>> THEN <<>>
  ELSE LET impact == ImpactOf(Head(patterns).category)
           pairs == SelectSeq(impact, LAMBDA pair : pair[1] = domain)
       IN  [k \in 1..Len(pairs) |-> pairs[k][2] * Head(patterns).severity]
           \o StepsOn(domain, Tail(patterns))

RECURSIVE FloorAfterEach(_, _)
\* the steps applied to one value, floored at 1.0 after each
FloorAfterEach(value, steps) ==
  IF steps = <<>> THEN value
  ELSE FloorAfterEach(Max(Scale, value + Head(steps)), Tail(steps))

\* C10: _adjust_scores_for_negative_patterns applies, in the order of the detected
\* categories and of each category's (domain, base_penalty) pairs, the step
\* adjusted[domain] := max(1.0, adjusted[domain] + base_penalty * severity), the floor
\* applied after each step; a domain no detected category targets keeps its raw value
C10_StepwiseFloor ==
  (pc = "done" /\ ~raised) =>
    /\ DOMAIN adjusted_scores = DOMAIN domain_scores
    /\ \A d \in DOMAIN domain_scores :
         LET steps == StepsOn(d, negative_patterns)
         IN  IF steps = <<>>
             THEN adjusted_scores[d] = domain_scores[d]
             ELSE adjusted_scores[d] = PyNum(FloorAfterEach(domain_scores[d].val, steps))

\* two categories penalised one domain, the floor held the first step, and another
\* domain was targeted by neither
C10_Witness ==
  /\ pc = "done" /\ ~raised
  /\ \E d \in DOMAIN domain_scores :
       LET steps == StepsOn(d, negative_patterns)
       IN  /\ Len(steps) >= 2
           /\ domain_scores[d].val > Scale
           /\ domain_scores[d].val + steps[1] < Scale
           /\ adjusted_scores[d].val = Scale
  /\ \E d \in DOMAIN domain_scores :
       StepsOn(d, negative_patterns) = <<>> /\ adjusted_scores[d] = domain_scores[d]

\* no indicator phrase of any category is found in the transcript
NoIndicatorOccurs(text) ==
  \A i \in 1..Len(negative_indicators) :
    \A k \in 1..Len(negative_indicators[i].indicators) :
      ~Contains(Lower(text), negative_indicators[i].indicators[k])

\* analyze_session has passed the score adjustment
Adjusted == pc \in {"multi_assessment", "insights", "expert", "chorus"} \/ Returned

\* C11: when no indicator phrase of any category occurs in the transcript,
\* negative_patterns is the empty mapping and the adjusted score set equals the raw
\* score set, keys and values, whatever the raw values are
C11_NoPatternsNoAdjustment ==
  (transcript.is_str /\ pc # "detect_patterns" /\ NoIndicatorOccurs(transcript.text)) =>
    /\ negative_patterns = <<>>
    /\ Adjusted => adjusted_scores = domain_scores
    /\ Returned => result.negative_patterns = <<>> /\ result.domain_scores = domain_scores

\* a session on a transcript without indicator phrases has returned, one of its raw
\* scores being a hosted provider's 0
C11_Witness ==
  /\ Returned
  /\ transcript.text # <<>> /\ NoIndicatorOccurs(transcript.text)
  /\ \E d \in DOMAIN domain_scores : domain_scores[d] = PyNum(0)

\* a call of _adjust_scores_for_negative_patterns is about to run
AdjustCalling == pc \in {"adjust_call", "adjust_again"}

\* C12: score adjustment is pure: a call leaves its two argument mappings unchanged
\* (the adjusted set is a separate copy), its result is determined by the two arguments
\* alone, and a second call on the same arguments returns the same mapping as the first
C12_AdjustmentPure ==
  [][ AdjustCalling =>
        /\ domain_scores' = domain_scores
        /\ negative_patterns' = negative_patterns
        /\ (pc = "adjust_call" /\ ~raised') =>
              adjusted_scores' = ApplyPatterns(domain_scores, negative_patterns)
        /\ (pc = "adjust_again" /\ ~raised') => result' = adjusted_scores ]_vars

\* two calls on the same arguments have returned the same penalised scores, which
\* differ from the raw scores the calls were given
C12_Witness ==
  /\ pc = "done" /\ ~raised
  /\ negative_patterns # <<>>
  /\ result = adjusted_scores
  /\ adjusted_scores # domain_scores

RECURSIVE SeveritySum(_)
\* the sum of the severities of the detected categories
SeveritySum(patterns) ==
  IF patterns = <<>> THEN 0 ELSE Head(patterns).severity + SeveritySum(Tail(patterns))

RECURSIVE ScoreSum(_, _)
\* the sum of the scores of the domains Domains[i..]
ScoreSum(scores, i) ==
  IF i > Len(Domains) THEN 0
  ELSE (IF Domains[i] \in DOMAIN scores THEN scores[Domains[i]].val ELSE 0)
       + ScoreSum(scores, i + 1)

\* avg <= bound, avg being the mean of the scores and bound a whole number
AvgAtMost(scores, bound) ==
  ScoreSum(scores, 1) <= bound * Scale * Cardinality(DOMAIN scores)

\* sev > tenths / 10, sev being the mean severity of the patterns, 0 when there are none
SevAbove(patterns, tenths) ==
  patterns # <<>> /\ 10 * SeveritySum(patterns) > tenths * SevScale * Len(patterns)

\* sev = tenths / 10
SevExactly(patterns, tenths) ==
  patterns # <<>> /\ 10 * SeveritySum(patterns) = tenths * SevScale * Len(patterns)

\* C13: _assess_therapy_effectiveness returns 'concerning' with confidence 0.8 iff
\* avg <= 3.0 or sev > 0.4; otherwise 'mixed' with confidence 0.6 iff avg <= 5.0 or
\* sev > 0.2; otherwise 'positive' with confidence 0.7.  avg exactly 3.0 without
\* patterns is 'concerning', avg 3.1 without patterns is 'mixed', and sev exactly 0.4
\* or exactly 0.2 does not by itself give the more severe status
C13_EffectivenessThresholds ==
  (pc = "done" /\ ~raised) =>
    LET concerning == AvgAtMost(adjusted_scores, 3) \/ SevAbove(negative_patterns, 4)
        mixed == AvgAtMost(adjusted_scores, 5) \/ SevAbove(negative_patterns, 2)
    IN  /\ result.status = "concerning" <=> concerning
        /\ result.status = "mixed" <=> (~concerning /\ mixed)
        /\ result.status = "positive" <=> (~concerning /\ ~mixed)
        /\ result.status = "concerning" => result.confidence = 8
        /\ result.status = "mixed" => result.confidence = 6
        /\ result.status = "positive" => result.confidence = 7
        /\ (negative_patterns = <<>>
            /\ \A d \in DOMAIN adjusted_scores : adjusted_scores[d].val = 3 * Scale)
             => result.status = "concerning"
        /\ (negative_patterns = <<>>
            /\ \A d \in DOMAIN adjusted_scores :
                 adjusted_scores[d].val = 31 * (Scale \div 10))
             => result.status = "mixed"
        /\ (SevExactly(negative_patterns, 4) /\ ~AvgAtMost(adjusted_scores, 3))
             => result.status = "mixed"
        /\ (SevExactly(negative_patterns, 2) /\ ~AvgAtMost(adjusted_scores, 5))
             => result.status = "positive"

\* scores averaging exactly 3.0 without patterns were judged 'concerning'
C13_Witness ==
  /\ pc = "done" /\ ~raised
  /\ negative_patterns = <<>>
  /\ ScoreSum(adjusted_scores, 1) = 3 * Scale * Cardinality(DOMAIN adjusted_scores)
  /\ \E d \in DOMAIN adjusted_scores : adjusted_scores[d].val # 3 * Scale
  /\ result.status = "concerning"

\* the words of each ending and the keywords of the four lists (therapist_positive,
\* therapist_negative, client_positive, client_negative) found in it
EndingHits ==
  << [words |-> 0, therapist_pos |-> 0, therapist_neg |-> 0, client_pos |-> 0, client_neg |-> 0],
     [words |-> 3, therapist_pos |-> 1, therapist_neg |-> 0, client_pos |-> 0, client_neg |-> 0],
     [words |-> 5, therapist_pos |-> 0, therapist_neg |-> 3, client_pos |-> 0, client_neg |-> 0],
     [words |-> 3, therapist_pos |-> 1, therapist_neg |-> 0, client_pos |-> 2, client_neg |-> 0],
     [words |-> 3, therapist_pos |-> 0, therapist_neg |-> 0, client_pos |-> 0, client_neg |-> 2],
     [words |-> 2, therapist_pos |-> 0, therapist_neg |-> 0, client_pos |-> 0, client_neg |-> 1],
     [words |-> 13, therapist_pos |-> 7, therapist_neg |-> 0, client_pos |-> 7, client_neg |-> 0],
     [words |-> 18, therapist_pos |-> 0, therapist_neg |-> 11, client_pos |-> 0, client_neg |-> 7] >>

\* base + 0.3 * (therapist_pos - therapist_neg) + 0.4 * (client_pos - client_neg),
\* clamped to [1, 10], in tenths
ExpectedTenths(words, hits) ==
  LET base == IF words < 50 THEN 4 ELSE IF words < 200 THEN 5
              ELSE IF words < 500 THEN 6 ELSE 7
      tenths == 10 * base + 3 * (hits.therapist_pos - hits.therapist_neg)
                + 4 * (hits.client_pos - hits.client_neg)
  IN  IF tenths < 10 THEN 10 ELSE IF tenths > 100 THEN 100 ELSE tenths

\* C14: the local score is base + 0.3 * (therapist_pos - therapist_neg)
\* + 0.4 * (client_pos - client_neg), clamped to [1, 10] and rounded to one decimal,
\* base being 4 below 50 words, 5 for 50..199, 6 for 200..499 and 7 from 500, and each
\* count the number of keywords of its list found in the text; 600 words without a
\* keyword score 7.0
C14_LocalScoreFormula ==
  LocalCalled =>
    \A n \in FillerCounts, k \in 1..Len(Endings) :
      (prompt \in {StrPrompt(LocalInput(n, k)),
                   FrameworkPrompt(Frameworks[1], LocalInput(n, k))}) =>
        /\ provider_result.score
             = PyNum(ExpectedTenths(n + EndingHits[k].words, EndingHits[k]) * (Scale \div 10))
        /\ (n = 600 /\ k = 1) => provider_result.score = PyNum(7 * Scale)

\* the local model has scored 600 keyword-free words inside a framework prompt
C14_Witness ==
  /\ LocalCalled
  /\ prompt = FrameworkPrompt(Frameworks[1], LocalInput(600, 1))
  /\ provider_result.score = PyNum(7 * Scale)

\* the local tier answered the last request
LocalAnswered == ChainCalled /\ attempts[Len(attempts)].tier = "local"

\* C15: whenever the local tier answers a request built from a transcript, the word
\* count and the text in which keywords are counted are those of the raw transcript
\* alone, never of the surrounding prompt: the score is the raw transcript's score,
\* also for a transcript that contains "Transcript: " or "Respond in JSON format"
C15_LocalScoresRawTranscript ==
  (transcript.is_str /\ LocalAnswered) =>
    provider_result.score = PyNum(LocalScore(Lower(transcript.text)))

\* C16: during one analyze_session call with a hosted provider configured at most 8
\* outbound hosted-provider calls are made: one for each of the seven framework
\* analyses and one for the synthesis
C16_AtMostEightCalls ==
  (openai_client \/ huggingface_api_key) => outbound_calls <= Len(Frameworks) + 1

\* _generate_overall_insights has returned
Synthesized == overall_insights # None

\* C17: _generate_overall_insights always returns a mapping with the four lists
\* insights, recommendations, themes and progress_indicators, the fallback standing in
\* for a result that is missing, empty or lacks one of them, so analyze_session does
\* not fail because of the shape of the synthesis result
C17_SynthesisAlwaysComplete ==
  Synthesized =>
    /\ InsightKeys \subseteq DOMAIN overall_insights
    /\ (pc = "done" /\ expert_evaluation # None) => result # None

\* the synthesis result was not usable and the fallback was returned; the next step has
\* not run yet
FallbackUsed ==
  /\ pc = "expert"
  /\ ~Truthy(provider_result) \/ ~HasKey(provider_result, "insights")

\* the members of a list
Items(list) == {list[i] : i \in 1..Len(list)}

\* C18: the synthesis fallback is pattern-aware: if and only if negative_patterns is not
\* empty its insights hold the effectiveness warning and its recommendations the advice
\* to discuss therapy with the therapist (two entries each instead of one); themes and
\* progress indicators are the same single-item lists in both cases
C18_FallbackPatternAware ==
  FallbackUsed =>
    LET warning == "Warning: Concerning patterns detected that may indicate therapy is not working effectively"
        discuss == "Consider discussing therapy effectiveness and potential changes with your therapist"
        detected == negative_patterns # <<>>
    IN  /\ detected <=> warning \in Items(overall_insights.insights)
        /\ detected <=> discuss \in Items(overall_insights.recommendations)
        /\ Len(overall_insights.insights) = IF detected THEN 2 ELSE 1
        /\ Len(overall_insights.recommendations) = IF detected THEN 2 ELSE 1
        /\ overall_insights.insights[1]
             = "Session analysis completed with multiple therapeutic perspectives"
        /\ overall_insights.recommendations[1]
             = "Continue working on identified areas for growth"
        /\ overall_insights.themes = <<"Therapeutic progress and self-exploration">>
        /\ overall_insights.progress_indicators
             = <<"Client engagement and insight development">>

\* the fallback was returned for a session with a detected pattern
C18_Witness ==
  /\ FallbackUsed
  /\ negative_patterns # <<>>
  /\ Len(overall_insights.insights) = 2 /\ Len(overall_insights.recommendations) = 2

\* _assess_overall_reliability has returned
ReliabilityAssessed == pc = "done" /\ result # None /\ multi_assessment_results # None
                         /\ "methods_used" \in DOMAIN multi_assessment_results

\* C19: _assess_overall_reliability returns the mean of the reliability constants of
\* the methods in methods_used (unstructured 6.0, structured 8.0, behavioral
\* observation 6.5, rating scales 7.0) and the level 'high' iff that mean is >= 7.5,
\* 'moderate' iff it is >= 5.0 and < 7.5, 'low' otherwise; exactly 7.5 is 'high' and
\* exactly 5.0 is 'moderate'
C19_ReliabilityBands ==
  ReliabilityAssessed =>
    LET methods_used == multi_assessment_results.methods_used
        constant(method) == CASE method = "unstructured_interview"    -> 60
                              [] method = "structured_interview"      -> 80
                              [] method = "semi_structured_interview" -> 75
                              [] method = "behavioral_observation"    -> 65
                              [] method = "therapeutic_rating_scales" -> 70
                              [] OTHER -> 0
        known == {i \in 1..Len(methods_used) : constant(methods_used[i]) # 0}
        tenths == SumOver([i \in known |-> constant(methods_used[i])], known)
        n == Cardinality(known)
        overall == result.overall_reliability
        level == result.reliability_level
    IN  /\ n > 0 => overall * 10 * n = tenths * Scale
        /\ level = "high" <=> 2 * overall >= 15 * Scale
        /\ level = "moderate" <=> (overall >= 5 * Scale /\ 2 * overall < 15 * Scale)
        /\ level = "low" <=> overall < 5 * Scale

\* structured interview and rating scales average exactly 7.5, which is 'high'
C19_Witness ==
  /\ ReliabilityAssessed
  /\ multi_assessment_results.methods_used
       = <<"structured_interview", "therapeutic_rating_scales">>
  /\ 2 * result.overall_reliability = 15 * Scale
  /\ result.reliability_level = "high"

\* the categories of an ordered mapping of detected patterns
CategoriesOf(patterns) == {patterns[i].category : i \in 1..Len(patterns)}

\* C20: for the 'concerning' demo transcript of the application, negative_patterns
\* holds at least therapeutic_alliance, emotional_deterioration, resistance_patterns and
\* therapeutic_rupture, each with a severity above zero, the adjusted scores are lower
\* than the raw scores, and the effectiveness verdict is 'concerning' or 'mixed'
C20_ConcerningDemo ==
  (Returned /\ transcript.text = DemoTranscript) =>
    /\ { "therapeutic_alliance", "emotional_deterioration", "resistance_patterns",
         "therapeutic_rupture" } \subseteq CategoriesOf(result.negative_patterns)
    /\ \A i \in 1..Len(result.negative_patterns) : result.negative_patterns[i].severity > 0
    /\ \A d \in DOMAIN domain_scores :
         (domain_scores[d].type = "num" /\ domain_scores[d].val >= Scale)
           => result.domain_scores[d].val < domain_scores[d].val
    /\ result.therapy_effectiveness.status \in {"concerning", "mixed"}

\* no hosted provider is configured
NoCredentials == ~openai_client /\ ~huggingface_api_key

\* C21: for the 'positive' demo transcript of the application and no hosted
\* credentials, all seven adjusted domain scores lie between 5 and 8, negative_patterns
\* is empty or holds a single category, and the effectiveness verdict is 'positive'
C21_PositiveDemo ==
  (Returned /\ NoCredentials /\ transcript.text = PositiveDemoTranscript) =>
    /\ DOMAIN result.domain_scores = AllDomains
    /\ \A d \in AllDomains :
         /\ result.domain_scores[d].type = "num"
         /\ result.domain_scores[d].val >= 5 * Scale
         /\ result.domain_scores[d].val <= 8 * Scale
    /\ Len(result.negative_patterns) <= 1
    /\ result.therapy_effectiveness.status = "positive"

\* the session on the positive demo transcript has returned without credentials, one
\* adjusted score lowered by the single detected category
C21_Witness ==
  /\ Returned /\ NoCredentials /\ transcript.text = PositiveDemoTranscript
  /\ Len(result.negative_patterns) = 1
  /\ 20 * result.domain_scores["emotional_safety"].val = 139 * Scale
  /\ result.domain_scores["unconscious_patterns"].val = 72 * (Scale \div 10)

\* a SessionData has been rebuilt from a dict, from JSON or from a session file
Rebuilt == loaded # None

\* C22: serialization loses nothing: SessionData.from_dict(s.to_dict()) and
\* SessionData.from_json(s.to_json()) carry the transcript, timestamp and analysis of s
\* (every domain score, pattern finding and recommendation), and a session stored with
\* save_session and read back with load_session under the returned id has the same
\* transcript and analysis
C22_RoundTrip ==
  Rebuilt =>
    /\ loaded.value.transcript = loaded.source.transcript
    /\ loaded.value.analysis = loaded.source.analysis
    /\ loaded.op \in {"from_dict", "from_json"}
         => loaded.value.timestamp = loaded.source.timestamp

\* the raw score set read from the framework analyses of a returned result
AnalyzerScores(analyses) ==
  [d \in AllDomains |->
     analyses[Frameworks[CHOOSE i \in 1..Len(Frameworks) :
                           Frameworks[i].domain = d].name].score]

\* C23: in the result of analyze_session 'domain_scores' is the adjusted score set,
\* while the seven analyses in 'detailed_analysis' are what their analyzers returned:
\* each analysis enters detailed_analysis as the provider chain produced it, and score
\* adjustment and every later step of the pipeline leave all of them, raw 'score'
\* included, unchanged
C23_AnalysesKeptRaw ==
  /\ [](Returned =>
          /\ result.detailed_analysis = detailed_analysis
          /\ DOMAIN result.detailed_analysis = FrameworkNames
          /\ result.domain_scores
               = adjust_scores_for_negative_patterns(AnalyzerScores(result.detailed_analysis),
                                                     result.negative_patterns))
  /\ [][ /\ (pc = "frameworks" /\ pc' # "done") =>
              \E name \in FrameworkNames \ DOMAIN detailed_analysis :
                /\ DOMAIN detailed_analysis' = DOMAIN detailed_analysis \cup {name}
                /\ detailed_analysis'[name] = provider_result'
                /\ \A other \in DOMAIN detailed_analysis :
                     detailed_analysis'[other] = detailed_analysis[other]
         /\ pc \notin {"detect_patterns", "frameworks"} =>
              detailed_analysis' = detailed_analysis ]_vars

\* a session has returned with a score lowered by the adjustment while the analysis of
\* that domain's framework still holds the raw score
C23_Witness ==
  /\ Returned
  /\ result.negative_patterns # <<>>
  /\ result.detailed_analysis["rogers"].score.type = "num"
  /\ result.domain_scores["emotional_safety"].val
       < result.detailed_analysis["rogers"].score.val

\* _generate_clinical_recommendations has returned
ValidityAssessed == pc = "done" /\ result # None /\ "convergent" \in DOMAIN multi_assessment_results

\* C24: validity_strength is convergent / (convergent + divergent) * 10, at most 10,
\* counting the entries of all convergent lists and the divergent findings, and 5.0
\* when both counts are zero; clinical_recommendations starts with the 'strong' pair
\* when the strength is >= 8.0, the 'moderate' pair when it is >= 6.0 and < 8.0, and the
\* 'limited' pair otherwise, always followed by the same three generic recommendations
C24_ValidityStrength ==
  ValidityAssessed =>
    LET patterns == multi_assessment_results.convergent
        convergent == SumOver([k \in DOMAIN patterns |-> Len(patterns[k])], DOMAIN patterns)
        divergent == Len(multi_assessment_results.divergent)
        strength == result.validity_strength
        list == result.clinical_recommendations
    IN  /\ convergent + divergent = 0 => strength.num = 5 * strength.den
        /\ convergent + divergent > 0 =>
             /\ strength.num * (convergent + divergent) = 10 * convergent * strength.den
             /\ strength.num <= 10 * strength.den
        /\ Len(list) = 5
        /\ list[1] = "Assessment findings show strong convergent validity - high confidence in results"
             <=> strength.num >= 8 * strength.den
        /\ list[1] = "Assessment findings show moderate convergent validity - reasonable confidence in results"
             <=> (strength.num >= 6 * strength.den /\ strength.num < 8 * strength.den)
        /\ list[1] = "Assessment findings show limited convergent validity - use caution in interpretation"
             <=> strength.num < 6 * strength.den
        /\ list[2] = (IF strength.num >= 8 * strength.den
                      THEN "Continue with current therapeutic approach based on reliable assessment data"
                      ELSE IF strength.num >= 6 * strength.den
                      THEN "Consider additional assessment methods to strengthen validity"
                      ELSE "Recommend comprehensive re-assessment using multiple methods and sources")
        /\ SubSeq(list, 3, 5) =
             << "Consider integrating multiple assessment sources for comprehensive evaluation",
                "Regular reassessment recommended to track therapeutic progress",
                "Document assessment limitations and reliability considerations" >>

\* four convergent entries and one divergent finding give exactly 8.0 and the 'strong'
\* pair
C24_Witness ==
  /\ ValidityAssessed
  /\ Len(multi_assessment_results.divergent) = 1
  /\ result.validity_strength = [num |-> 40, den |-> 5]
  /\ result.clinical_recommendations[2]
       = "Continue with current therapeutic approach based on reliable assessment data"

\* the orderings of an ordered mapping
Reorderings(patterns) ==
  {[i \in 1..Len(patterns) |-> patterns[f[i]]] :
     f \in {g \in [1..Len(patterns) -> 1..Len(patterns)] :
              \A i, j \in 1..Len(patterns) : i # j => g[i] # g[j]}}

C26_EveryPhraseDetectable ==
  (pc = "done" /\ transcript.is_str) =>
    \A i \in 1..Len(negative_indicators) :
      LET declared == negative_indicators[i].indicators
          contained == {k \in 1..Len(declared) :
                          Contains(Lower(transcript.text), Lower(declared[k]))}
      IN  contained # {} =>
            \E j \in 1..Len(negative_patterns) :
              /\ negative_patterns[j].category = negative_indicators[i].category
              /\ negative_patterns[j].severity * Len(declared)
                   = Cardinality(contained) * SevScale
              /\ \A k \in contained :
                   \/ declared[k] \in Items(negative_patterns[j].indicators)
                   \/ Len(negative_patterns[j].indicators) = 5

\* the severity order of the verdicts
StatusRank(status) ==
  CASE status = "positive" -> 0 [] status = "mixed" -> 1 [] status = "concerning" -> 2

\* the pattern mappings that hold one more detected category than patterns
WithOneMore(patterns) ==
  {Append(patterns, [category |-> c, severity |-> v, indicators |-> <<>>]) :
     c \in {negative_indicators[i].category : i \in 1..Len(negative_indicators)}
             \ CategoriesOf(patterns),
     v \in EffectivenessSeverities}

\* C27 as stated: for fixed adjusted scores, one more detected category of any severity
\* in (0, 1] never moves the status to a less severe one
C27_MonotoneInPatterns ==
  (pc = "done" /\ ~raised) =>
    \A more \in WithOneMore(negative_patterns) :
      StatusRank(assess_therapy_effectiveness(adjusted_scores, more).status)
        >= StatusRank(result.status)

\* C27, amended: the verdict follows the mean severity: for fixed adjusted scores, one
\* more detected category whose severity is at least the mean severity of the
\* categories already detected (any severity when none is detected) never moves the
\* status to a less severe one
C27_MonotoneInMeanSeverity ==
  (pc = "done" /\ ~raised) =>
    \A more \in WithOneMore(negative_patterns) :
      more[Len(more)].severity * Len(negative_patterns) >= SeveritySum(negative_patterns)
        => StatusRank(assess_therapy_effectiveness(adjusted_scores, more).status)
             >= StatusRank(result.status)

\* a verdict of 'mixed' that one more category, no less severe than the mean, turns
\* into 'concerning'
C27_Witness ==
  /\ pc = "done" /\ ~raised
  /\ negative_patterns # <<>>
  /\ result.status = "mixed"
  /\ \E more \in WithOneMore(negative_patterns) :
       /\ more[Len(more)].severity * Len(negative_patterns) >= SeveritySum(negative_patterns)
       /\ assess_therapy_effectiveness(adjusted_scores, more).status = "concerning"

\* the analysis is the one the try block of _analyze_with_local_model builds
LocallyAnswered(analysis) == HasKey(analysis, "note") /\ analysis.note = LocalNote

\* C28: the local score does not depend on which framework asked: the framework
\* analyses of a run that the local fallback answered all carry the same score, so a
\* run answered by the local fallback alone has seven equal raw domain scores
C28_LocalScoresEqual ==
  /\ \A a, b \in DOMAIN detailed_analysis :
       (LocallyAnswered(detailed_analysis[a]) /\ LocallyAnswered(detailed_analysis[b]))
         => detailed_analysis[a].score = detailed_analysis[b].score
  /\ (Returned /\ \A a \in FrameworkNames : LocallyAnswered(result.detailed_analysis[a]))
       => \A a \in FrameworkNames :
            result.detailed_analysis[a].score
              = PyNum(LocalScore(LocalText(FrameworkPrompt(Frameworks[1], transcript.text))))

\* a run with a hosted provider configured whose seven analyses all fell through to the
\* local fallback, on a transcript that scores off the base value
C28_Witness ==
  /\ Returned /\ openai_client
  /\ \A a \in FrameworkNames : LocallyAnswered(result.detailed_analysis[a])
  /\ result.detailed_analysis["behavioral"].score.val \notin {4 * Scale, 5 * Scale}

\* conduct_comprehensive_assessment has returned
Assessed == pc = "done" /\ result # None /\ "convergent_findings" \in DOMAIN result

\* C29: for every transcript conduct_comprehensive_assessment, called without
\* additional sources, uses the four methods unstructured_interview,
\* structured_interview, behavioral_observation, therapeutic_rating_scales in that
\* order, finds exactly one convergent entry (the rapport quality, under
\* therapeutic_alliance) and no divergent finding, so that validity_strength is 10.0,
\* clinical_recommendations is the same five-item list, and reliability_assessment is
\* overall 6.875 with level 'moderate'
C29_AssessmentConstant ==
  Assessed =>
    LET convergent_analysis == assess_convergent_validity(MethodResults(transcript.text))
        findings == result.convergent_findings
    IN  /\ result.methods_used = << "unstructured_interview", "structured_interview",
                                    "behavioral_observation", "therapeutic_rating_scales" >>
        /\ result.sources_consulted = << "session_transcript" >>
        /\ findings = convergent_analysis.convergent
        /\ SumOver([k \in DOMAIN findings |-> Len(findings[k])], DOMAIN findings) = 1
        /\ Len(findings.therapeutic_alliance) = 1
        /\ result.divergent_findings = <<>>
        /\ convergent_analysis.validity_strength.num
             = 10 * convergent_analysis.validity_strength.den
        /\ result.clinical_recommendations =
             << "Assessment findings show strong convergent validity - high confidence in results",
                "Continue with current therapeutic approach based on reliable assessment data",
                "Consider integrating multiple assessment sources for comprehensive evaluation",
                "Regular reassessment recommended to track therapeutic progress",
                "Document assessment limitations and reliability considerations" >>
        /\ 8 * result.reliability_assessment.overall_reliability = 55 * Scale
        /\ result.reliability_assessment.reliability_level = "moderate"

\* an assessment of a transcript in which rapport phrases are found and the engagement
\* of the client is rated
C29_Witness ==
  /\ Assessed
  /\ result.convergent_findings.therapeutic_alliance[1].rapport_score > 0
  /\ analyze_behavioral_indicators(transcript.text)
       .behavioral_patterns.engagement_level.engagement_score > 0

\* _analyze_structured_elements has returned
StructuredAnalyzed == pc = "done" /\ result # None /\ "completeness_score" \in DOMAIN result

\* the score of one coverage area, under the key its assessment gives it
AreaScore(data) ==
  data[CHOOSE key \in DOMAIN data :
         key \in {"coverage_score", "impact_score", "risk_score", "strength_score",
                  "goal_score"}]

\* C30: the completeness_score of the structured interview is the arithmetic mean of
\* the scores of all six coverage areas, each area score being (topic indicators found
\* / topic indicators of the area) * 10, so that it lies in [0, 10] and changes
\* whenever the score of a single area changes
C30_CompletenessIsMeanOfSix ==
  StructuredAnalyzed =>
    LET areas == result.systematic_coverage
        lowered == Lower(transcript.text)
        tables == [ presenting_problem   |-> problem_elements,
                    symptom_assessment   |-> symptom_domains,
                    functional_impact    |-> functional_areas,
                    risk_assessment      |-> risk_indicators,
                    strengths_assessment |-> strength_indicators,
                    treatment_goals      |-> goal_elements ]
    IN  /\ DOMAIN areas = DOMAIN tables
        /\ \A a \in DOMAIN areas :
             Len(tables[a]) * AreaScore(areas[a])
               = 10 * Scale * Cardinality({i \in 1..Len(tables[a]) :
                                             Search(tables[a][i].pattern, lowered)})
        /\ 6 * result.completeness_score
             = SumOver([a \in DOMAIN areas |-> AreaScore(areas[a])], DOMAIN areas)
        /\ result.completeness_score >= 0 /\ result.completeness_score <= 10 * Scale

=============================================================================
